---- MODULE Spec2Model ----
(***************************************************************************)
(* Model of the concurrent extraction pipeline of repopsy                  *)
(* (internal/extractor/extractor.go): Extractor.Run, the worker pool, the  *)
(* goroutine that closes the results channel, and the collector loop.      *)
(*                                                                         *)
(* One run of Extractor.Run is modelled.  The dispatcher (Run), every      *)
(* worker goroutine and the closer goroutine are separate processes whose  *)
(* steps interleave freely; the cancellation of ctx is an external event   *)
(* that may happen at any moment.                                          *)
(***************************************************************************)
EXTENDS Integers, Sequences, FiniteSets, TLC

(* ---- bounds of the model ---- *)
MaxItems == 2        \* longest input sequence explored
MaxWorkers == 2      \* largest configured worker count explored
MaxTime == 2         \* last tick of the clock the reporter reads

(* runtime.NumCPU() of the modelled machine *)
NumCPU == 1

(* ---- inputs ---- *)
\* what the repository / file system does for one commit:
\*   ok            ExtractCommit and WriteMetadataFile succeed
\*   extract_fail  ExtractCommit returns an error
\*   meta_fail     ExtractCommit succeeds, WriteMetadataFile fails
Fates == {"ok", "extract_fail", "meta_fail"}

\* worker counts a caller may configure (0 and below are coerced by New)
WorkerConfigs == -1 .. MaxWorkers

\* goroutine slots of the worker pool
Max(a, b) == IF a >= b THEN a ELSE b
Slots == 1 .. (Max(MaxWorkers, NumCPU) + 1)

\* git.Commit, reduced to the fields the extractor reads; AuthorDate is a
\* number whose hundreds are the date part and whose rest is the time part
MkCommit(h) == [Hash |-> h, ShortHash |-> ToString(h), AuthorDate |-> 2000 + h]

\* the commit list ListCommits hands over: n commits, the one with the
\* highest hash number first
CommitList(n) == [i \in 1 .. n |-> MkCommit(10 + (n + 1 - i))]

NoJob == [commit |-> MkCommit(0), index |-> -1]
NoResult == [Commit |-> MkCommit(0), Index |-> -1, OutputPath |-> "", Error |-> "nil"]

VARIABLES
    commits,        \* argument of Run
    fate,           \* behaviour of the repository per commit hash
    cfgWorkers,     \* Config.Workers as passed to New
    workers,        \* e.config.Workers after New
    ctxDone,        \* ctx.Done() is closed
    runPc,          \* position of Run
    loopI,          \* loop variable i of the two for loops of Run
    reporterMade,   \* progress.New has been called
    current,        \* Reporter.current
    finishCalls,    \* number of reporter.Finish() calls
    chansMade,      \* the jobs and results channels exist
    jobs,           \* buffer of the jobs channel
    jobsCap,        \* capacity of the jobs channel
    jobsClosed,     \* close(jobs) has happened
    results,        \* buffer of the results channel
    resultsCap,     \* capacity of the results channel
    resultsClosed,  \* close(results) has happened
    wg,             \* counter of the sync.WaitGroup
    closerPc,       \* position of the goroutine that closes results
    wpc,            \* position of each worker goroutine
    wjob,           \* job held by each worker
    wres,           \* result computed by each worker
    allResults,     \* collector's list
    extractionErrs, \* collector's error list
    retResults,     \* first return value of Run
    retErr,         \* second return value of Run
    taken,          \* history: the indices of the dequeued Jobs, in order
    published,      \* history: sequence of results sent on the channel
    atCancel,       \* history: indices in flight when ctx was cancelled
    disk,           \* what exists at each output path
    summaries,      \* the counts shown by the summary lines of Finish
    \* -- one call of Repository.ExtractCommit (runArchiveToTar) --
    pipePc,         \* position of ExtractCommit
    mkdirOk,        \* os.MkdirAll succeeds
    pipeOk,         \* archiveCmd.StdoutPipe succeeds
    startAOk,       \* archiveCmd.Start succeeds
    startBOk,       \* tarCmd.Start succeeds
    archExit,       \* exit status of git archive
    tarExit,        \* exit status of tar
    stall,          \* tar stops reading and more than a pipe buffer is left
    dirCreated,     \* the destination directory exists
    parentReadEnd,  \* the calling process holds the read end of the pipe
    archiver,       \* process state of git archive
    unpacker,       \* process state of tar
    pipeRet,        \* error returned by ExtractCommit
    \* -- one call of Repository.ExtractCommitExcludingBinaries --
    excludeBinaries,  \* argument excludeBinaries
    listFilesOk,      \* r.listFiles succeeds
    listBinaryOk,     \* r.listBinaryFiles succeeds
    snapshotFiles,    \* the files of the commit, as listFiles returns them
    binaryDetected,   \* the set listBinaryFiles returns
    archiveArgs,      \* arguments handed to git archive
    \* -- one call of Extractor.extractOne, step by step --
    onePc,          \* position of extractOne (and of the collector after it)
    oneFate,        \* what ExtractCommit / WriteMetadataFile do
    oneMsgOk,       \* GetCommitFullMessage succeeds
    oneStatsOk,     \* GetCommitStats succeeds
    oneCommit,      \* the local copy of the commit
    oneErr,         \* local variable err
    oneDisk,        \* what exists at the output path
    oneMetaTried,   \* history: WriteMetadataFile has been called
    oneResult,      \* the returned Result
    oneRetErr,      \* the aggregate error Run builds from that Result
    \* -- two workers computing their output paths --
    pathPc,         \* position of each of the two workers
    pathJob,        \* the commit each worker holds
    pathOut,        \* the output path each worker computed
    \* -- progress.Reporter used by a pool of workers --
    repTotal,       \* r.total
    repQuiet,       \* r.quiet
    repVerbose,     \* r.verbose
    repMu,          \* r.mu: 0 when free, else the worker holding it
    repCurrent,     \* r.current
    repLastPrint,   \* r.lastPrint
    repNow,         \* the clock
    repMain,        \* position of the goroutine calling Start and Finish
    repPc,          \* position of each worker
    repLoad,        \* the value each worker's r.current++ has read
    repCount,       \* local variable current of each worker's Increment
    repShould,      \* local variable shouldPrint of each worker's Increment
    repBar,         \* local variable current of each worker's print
    repDrew,        \* each worker's latest Increment has written a bar
    repStarted,     \* number of jobs taken
    repReturned,    \* number of Increment calls that have returned
    repObserved,    \* history: the counts the Increment calls observed
    repRedraw,      \* history: the latest redraw of a non-verbose Increment
    repLastBar,     \* the count on the bar written last to the sink
    repSummary,     \* the counts of the summary lines written by Finish
    \* -- app.runAllBranches and the exit status of cmd.Execute --
    appCfgWorkers,  \* cfg.Workers
    appCtxDone,     \* the context of Execute has been cancelled
    appPc,          \* position of runAllBranches
    appVia,         \* the return statement runAllBranches left through
    appN,           \* len(branches)
    appI,           \* the branch of the current loop iteration (from 1)
    appCommits,     \* local variable commits of the iteration
    appRunning,     \* the branches whose Extractor.Run is in progress
    appAllResults,  \* local variable allResults
    appExtractionErr, \* local variable extractionErr
    appRet,         \* the error runAllBranches returned
    appExit,        \* the exit status Execute returned
    appLog          \* history: what happened to each branch

vars == <<commits, fate, cfgWorkers, workers, ctxDone, runPc, loopI,
          reporterMade, current, finishCalls, chansMade, jobs, jobsCap,
          jobsClosed, results, resultsCap, resultsClosed, wg, closerPc, wpc, wjob, wres,
          allResults, extractionErrs, retResults, retErr, taken, published,
          atCancel, disk, summaries, pipePc, mkdirOk, pipeOk, startAOk, startBOk, archExit,
          tarExit, stall, dirCreated, parentReadEnd, archiver, unpacker,
          pipeRet, excludeBinaries, listFilesOk, listBinaryOk, snapshotFiles,
          binaryDetected, archiveArgs, onePc, oneFate, oneMsgOk, oneStatsOk,
          oneCommit, oneErr, oneDisk, oneMetaTried, oneResult, oneRetErr,
          pathPc, pathJob, pathOut, repTotal, repQuiet, repVerbose, repMu,
          repCurrent, repLastPrint, repNow, repMain, repPc, repLoad, repCount,
          repShould, repBar, repDrew, repStarted, repReturned, repObserved,
          repRedraw, repLastBar, repSummary, appCfgWorkers, appCtxDone, appPc, appVia,
          appN, appI, appCommits, appRunning, appAllResults,
          appExtractionErr, appRet, appExit, appLog>>

\* the variables of Extractor.Run
runVars == <<commits, fate, cfgWorkers, workers, ctxDone, runPc, loopI,
             reporterMade, current, finishCalls, chansMade, jobs, jobsCap,
             jobsClosed, results, resultsCap, resultsClosed, wg, closerPc,
             wpc, wjob, wres, allResults, extractionErrs, retResults, retErr,
             taken, published, atCancel, disk, summaries>>

\* the variables of Repository.ExtractCommit
pipeInputs == <<mkdirOk, pipeOk, startAOk, startBOk, archExit, tarExit, stall>>
exclVars == <<excludeBinaries, listFilesOk, listBinaryOk, snapshotFiles,
              binaryDetected, archiveArgs>>
pipeVars == <<pipePc, pipeInputs, dirCreated, parentReadEnd, archiver,
              unpacker, pipeRet, exclVars>>

\* the variables of the step-by-step extractOne
oneInputs == <<oneFate, oneMsgOk, oneStatsOk>>
oneVars == <<onePc, oneInputs, oneCommit, oneErr, oneDisk, oneMetaTried,
             oneResult, oneRetErr>>

\* the variables of the two path-computing workers
pathVars == <<pathPc, pathJob, pathOut>>

\* the variables of the progress reporter and its callers
repConfig == <<repTotal, repQuiet, repVerbose>>
repVars == <<repConfig, repMu, repCurrent, repLastPrint, repNow, repMain,
             repPc, repLoad, repCount, repShould, repBar, repDrew, repStarted,
             repReturned, repObserved, repRedraw, repLastBar, repSummary>>

\* the variables of runAllBranches and Execute
appVars == <<appCfgWorkers, appCtxDone, appPc, appVia, appN, appI, appCommits, appRunning,
             appAllResults, appExtractionErr, appRet, appExit, appLog>>

\* everything that belongs to another component than Extractor.Run
notRunVars == <<pipeVars, oneVars, pathVars, repVars, appVars>>
\* everything that belongs to another component than the pipeline
notPipeVars == <<runVars, oneVars, pathVars, repVars, appVars>>
\* everything that belongs to another component than extractOne
notOneVars == <<runVars, pipeVars, pathVars, repVars, appVars>>
\* everything that belongs to another component than the path computation
notPathVars == <<runVars, pipeVars, oneVars, repVars, appVars>>
\* everything that belongs to another component than the reporter
notRepVars == <<runVars, pipeVars, oneVars, pathVars, appVars>>
\* everything that belongs to another component than the application loop
notAppVars == <<runVars, pipeVars, oneVars, pathVars, repVars>>

chanVars == <<chansMade, jobs, jobsCap, jobsClosed, results, resultsCap, resultsClosed>>
inputVars == <<commits, fate, cfgWorkers, workers>>
workerVars == <<wpc, wjob, wres>>
collectVars == <<allResults, extractionErrs, retResults, retErr>>
reporterVars == <<reporterMade, current, finishCalls>>
histVars == <<taken, published, atCancel>>

(* ---- extractor.New ---- *)
\* variant: only a negative count is replaced
NewWorkers_ZeroKept(w) == IF w < 0 THEN NumCPU ELSE w

\* if cfg.Workers <= 0 { cfg.Workers = runtime.NumCPU() }
NewWorkers(w) == IF w <= 0 THEN NumCPU ELSE w

(* ---- Extractor.extractOne ---- *)
OutputDir == "out"

\* two decimal digits, zero padded
Pad2(n) == IF n < 10 THEN "0" \o ToString(n) ELSE ToString(n)

\* commit.AuthorDate.Format("20060102_150405"): fixed width, date part,
\* underscore, time part
FormatTimestamp(d) == Pad2(d \div 100) \o "_" \o Pad2(d % 100)

\* variant: the folder name is the timestamp alone
FolderName_NoHash(timestamp, shortHash) == timestamp

\* folderName := fmt.Sprintf("%s_%s", timestamp, commit.ShortHash)
FolderName(timestamp, shortHash) == timestamp \o "_" \o shortHash

\* filepath.Join(e.config.OutputDir, folderName)
JoinPath(dir, name) == dir \o "/" \o name

OutputPathOf(commit) ==
    JoinPath(OutputDir, FolderName(FormatTimestamp(commit.AuthorDate), commit.ShortHash))

ExtractCommit(f, hash) == IF f[hash] = "extract_fail" THEN "extract_failed" ELSE "nil"

WriteMetadataFile(f, hash) == IF f[hash] = "meta_fail" THEN "metadata_failed" ELSE "nil"

\* variant: the metadata document is written whatever ExtractCommit returned
WritesMetadata_Always(err) == TRUE

\* if err == nil { ... commit.WriteMetadataFile(outputPath) ... }
WritesMetadata(err) == err = "nil"

extractOne(f, commit, index) ==
    LET err == ExtractCommit(f, commit.Hash)
        err2 == IF err = "nil" THEN WriteMetadataFile(f, commit.Hash) ELSE err
    IN [Commit |-> commit, Index |-> index,
        OutputPath |-> OutputPathOf(commit), Error |-> err2]

(* ---- the file system under the output directory ---- *)
\* what one extractOne leaves at its output path: the tree and the metadata
\* document, the tree alone, or whatever a failed extraction got to
\* (nothing at all when the directory could not be made)
Leaves(err) ==
    CASE err = "nil" -> "tree and metadata"
      [] err = "metadata_failed" -> "tree"
      [] OTHER -> "partial"

\* variant: a failed item removes what the run has extracted so far
DiskAfter_Rollback(d, r) ==
    IF r.Error = "nil"
    THEN [d EXCEPT ![r.OutputPath] = Leaves(r.Error)]
    ELSE [p \in DOMAIN d |-> "absent"]

\* extractOne writes under its own output path only
DiskAfter(d, r) == [d EXCEPT ![r.OutputPath] = Leaves(r.Error)]

(* ---- progress.Reporter.Finish ---- *)
\* r.quiet of the reporter Run builds: progress.Config{Total, Verbose} leaves
\* Quiet at its zero value, the Config of the extractor has no such field
RunQuiet == FALSE

\* variant: the summary line is written twice
FinishOutput_Twice(quiet, total) == IF quiet THEN <<>> ELSE <<total, total>>

\* if r.quiet { return }; Fprintf("... Completed %d commits in %s", r.total, ...)
FinishOutput(quiet, total) == IF quiet THEN <<>> ELSE <<total>>

(* ---- error values returned by Run ---- *)
NilError == [kind |-> "nil", failed |-> 0, total |-> 0, joined |-> <<>>]
UnsetError == [kind |-> "unset", failed |-> 0, total |-> 0, joined |-> <<>>]

\* variant: an aggregate error only from the second failure on
AggregateError_OffByOne(errs, n) ==
    IF Len(errs) > 1
    THEN [kind |-> "failed", failed |-> Len(errs), total |-> n, joined |-> errs]
    ELSE NilError

\* fmt.Errorf("%d of %d extractions failed: %w", len(errs), len(commits), errors.Join(errs...))
AggregateError(errs, n) ==
    IF Len(errs) > 0
    THEN [kind |-> "failed", failed |-> Len(errs), total |-> n, joined |-> errs]
    ELSE NilError

(* ---- pieces of Run and worker ---- *)
\* variant: the empty-input check is missing
IsEmptyInput_Never(cs) == FALSE

\* if len(commits) == 0 { return nil, nil }
IsEmptyInput(cs) == Len(cs) = 0

\* variant: the pool loop runs once too often
SpawnCond_OneMore(i, w) == i <= w

\* for i := 0; i < e.config.Workers; i++
SpawnCond(i, w) == i < w

\* variant: the queue is one slot short
JobsCapOf_OneShort(n) == n - 1

\* jobs := make(chan job, len(commits))
JobsCapOf(n) == n

\* variant: the results channel is one slot short
ResultsCapOf_OneShort(n) == n - 1

\* results := make(chan Result, len(commits))
ResultsCapOf(n) == n

\* variant: every job carries the first commit
MkJob_FirstCommit(cs, i) == [commit |-> cs[1], index |-> i]

\* variant: every job carries index 0
MkJob_SameIndex(cs, i) == [commit |-> cs[i + 1], index |-> 0]

\* job{commit: commit, index: i} for the i-th (zero-based) element of the range
MkJob(cs, i) == [commit |-> cs[i + 1], index |-> i]

\* variant: a receive does not remove the job
Dequeue_Keep(q) == q

\* what a receive leaves in the jobs buffer
Dequeue(q) == Tail(q)

\* variant: a failed result is not sent
PublishTo_DropFailed(buf, res) == IF res.Error # "nil" THEN buf ELSE Append(buf, res)

\* variant: the outcome of a successful extraction is not published
PublishTo_DropOk(buf, res) == IF res.Error = "nil" THEN buf ELSE Append(buf, res)

\* variant: the send gives way to the cancellation
PublishTo_UnlessCancelled(buf, res) == IF ctxDone THEN buf ELSE Append(buf, res)

\* results <- result
PublishTo(buf, res) == Append(buf, res)

\* variant: a worker returns without wg.Done()
WgDone_Missing(c) == c

\* defer wg.Done()
WgDone(c) == c - 1

\* variant: the closer does not wait for the workers
WaitDone_NoWait(c) == TRUE

\* wg.Wait() returns
WaitDone(c) == c = 0

\* variant: the collector puts each outcome in front
CollectAppend_Prepend(list, r) == <<r>> \o list

\* allResults = append(allResults, result)
CollectAppend(list, r) == Append(list, r)

\* variant: the collector stops as soon as the buffer is empty
RangeEnds_OnEmpty(buf, closed) == buf = <<>>

\* for result := range results terminates
RangeEnds(buf, closed) == buf = <<>> /\ closed

(* ---- Repository.ExtractCommit: values ---- *)
PipeNilError == [class |-> "nil", text |-> ""]
PipeUnset == [class |-> "unset", text |-> ""]
ExitCodes == {0, 1}
ArchiveStderr == "archive stderr"
\* archive arguments of ExtractCommit: the whole tree of the commit
FullArgs == [mode |-> "full", paths |-> <<>>]
TarStderr == "tar stderr"

\* no ExtractCommit call is being looked at
PipeIdle ==
    /\ pipePc = "idle"
    /\ mkdirOk = TRUE /\ pipeOk = TRUE /\ startAOk = TRUE /\ startBOk = TRUE
    /\ archExit = 0 /\ tarExit = 0 /\ stall = FALSE
    /\ dirCreated = FALSE
    /\ parentReadEnd = FALSE
    /\ archiver = "none"
    /\ unpacker = "none"
    /\ pipeRet = PipeUnset
    /\ excludeBinaries = FALSE
    /\ listFilesOk = TRUE
    /\ listBinaryOk = TRUE
    /\ snapshotFiles = <<>>
    /\ binaryDetected = {}
    /\ archiveArgs = FullArgs

\* git.Commit with the fields extractOne fills in
WithDetails(c, msg, files) ==
    [Hash |-> c.Hash, ShortHash |-> c.ShortHash, AuthorDate |-> c.AuthorDate,
     FullMessage |-> msg, FilesChanged |-> files]

\* no step-by-step extractOne is being looked at
OneIdle ==
    /\ onePc = "idle"
    /\ oneFate = "ok"
    /\ oneMsgOk = TRUE
    /\ oneStatsOk = TRUE
    /\ oneCommit = WithDetails(MkCommit(0), "", 0)
    /\ oneErr = "nil"
    /\ oneDisk = "absent"
    /\ oneMetaTried = FALSE
    /\ oneResult = NoResult
    /\ oneRetErr = UnsetError

PathWorkers == {1, 2}

\* no path computation is being looked at
PathIdle ==
    /\ pathPc = [w \in PathWorkers |-> "idle"]
    /\ pathJob = [w \in PathWorkers |-> MkCommit(0)]
    /\ pathOut = [w \in PathWorkers |-> ""]

(* ---- progress.Reporter: values ---- *)
\* the goroutines that call Increment
RepWorkers == 1 .. MaxWorkers

\* 100*time.Millisecond, in ticks of the clock
RedrawInterval == 1

\* the zero time.Time of lastPrint before the first print
ZeroTime == -1000

NoRedraw == [count |-> 0, since |-> 0]

\* the state of a Reporter just made by New, before Start
RepFresh ==
    /\ repMu = 0
    /\ repCurrent = 0
    /\ repLastPrint = ZeroTime
    /\ repNow = 0
    /\ repPc = [w \in RepWorkers |-> "idle"]
    /\ repLoad = [w \in RepWorkers |-> 0]
    /\ repCount = [w \in RepWorkers |-> 0]
    /\ repShould = [w \in RepWorkers |-> FALSE]
    /\ repBar = [w \in RepWorkers |-> 0]
    /\ repDrew = [w \in RepWorkers |-> FALSE]
    /\ repStarted = 0
    /\ repReturned = 0
    /\ repObserved = <<>>
    /\ repRedraw = NoRedraw
    /\ repLastBar = -1
    /\ repSummary = <<>>

\* no reporter is being looked at
RepIdle ==
    /\ repTotal = 0 /\ repQuiet = FALSE /\ repVerbose = FALSE
    /\ repMain = "idle"
    /\ RepFresh

(* ---- app.runAllBranches: values ---- *)
\* the branches a repository can have
MaxBranches == 2
Branches == 1 .. MaxBranches

\* ctx.Err() of a cancelled context
CancelErr == [kind |-> "canceled", failed |-> 0, total |-> 0, joined |-> <<>>]
\* fmt.Errorf("failed to list branches: %w", err)
ListBranchesErr == [kind |-> "list_branches", failed |-> 0, total |-> 0, joined |-> <<>>]
\* fmt.Errorf("no branches found")
NoBranchesErr == [kind |-> "no_branches", failed |-> 0, total |-> 0, joined |-> <<>>]

\* what is known of a branch before its loop iteration
NoLog == [state |-> "pending", ctxAtCheck |-> FALSE, ctxAtList |-> FALSE,
          listErr |-> "unset", commits |-> <<>>, results |-> <<>>,
          runErr |-> UnsetError]

\* runAllBranches has not been called
AppIdle ==
    /\ appCfgWorkers = 1
    /\ appCtxDone = FALSE
    /\ appPc = "idle"
    /\ appVia = "none"
    /\ appN = 0
    /\ appI = 0
    /\ appCommits = <<>>
    /\ appRunning = {}
    /\ appAllResults = <<>>
    /\ appExtractionErr = NilError
    /\ appRet = UnsetError
    /\ appExit = -1
    /\ appLog = [b \in Branches |-> NoLog]

\* no other component than Extractor.Run is being looked at
NotRunIdle == PipeIdle /\ OneIdle /\ PathIdle /\ RepIdle /\ AppIdle

Init ==
    /\ NotRunIdle
    /\ \E n \in 0 .. MaxItems : commits = CommitList(n)
    /\ disk = [p \in {OutputPathOf(commits[i]) : i \in DOMAIN commits} |-> "absent"]
    /\ summaries = <<>>
    /\ fate \in [{commits[i].Hash : i \in 1 .. Len(commits)} -> Fates]
    /\ cfgWorkers \in WorkerConfigs
    /\ workers = NewWorkers(cfgWorkers)
    /\ ctxDone = FALSE
    /\ runPc = "start"
    /\ loopI = 0
    /\ reporterMade = FALSE
    /\ current = 0
    /\ finishCalls = 0
    /\ chansMade = FALSE
    /\ jobs = <<>>
    /\ jobsCap = 0
    /\ jobsClosed = FALSE
    /\ results = <<>>
    /\ resultsCap = 0
    /\ resultsClosed = FALSE
    /\ wg = 0
    /\ closerPc = "unstarted"
    /\ wpc = [s \in Slots |-> "unstarted"]
    /\ wjob = [s \in Slots |-> NoJob]
    /\ wres = [s \in Slots |-> NoResult]
    /\ allResults = <<>>
    /\ extractionErrs = <<>>
    /\ retResults = <<>>
    /\ retErr = UnsetError
    /\ taken = <<>>
    /\ published = <<>>
    /\ atCancel = {}

(* ---- Extractor.Run ---- *)

\* empty input: return nil, nil
RunEmpty ==
    /\ runPc = "start"
    /\ IsEmptyInput(commits)
    /\ retResults' = <<>>
    /\ retErr' = NilError
    /\ runPc' = "returned"
    /\ UNCHANGED <<notRunVars, inputVars, disk, summaries, ctxDone, loopI, reporterVars, chanVars, wg,
                   closerPc, workerVars, allResults, extractionErrs, histVars>>

\* progress.New, reporter.Start, make(chan job, n), make(chan Result, n)
RunSetup ==
    /\ runPc = "start"
    /\ ~IsEmptyInput(commits)
    /\ reporterMade' = TRUE
    /\ chansMade' = TRUE
    /\ jobsCap' = JobsCapOf(Len(commits))
    /\ resultsCap' = ResultsCapOf(Len(commits))
    /\ loopI' = 0
    /\ runPc' = "spawn"
    /\ UNCHANGED <<notRunVars, inputVars, disk, summaries, ctxDone, current, finishCalls, jobs, jobsClosed,
                   results, resultsClosed, wg, closerPc, workerVars,
                   collectVars, histVars>>

\* one iteration of the worker-pool loop: wg.Add(1); go func() {...}()
RunSpawn ==
    /\ runPc = "spawn"
    /\ SpawnCond(loopI, workers)
    /\ wg' = wg + 1
    /\ wpc' = [wpc EXCEPT ![loopI + 1] = "select"]
    /\ loopI' = loopI + 1
    /\ UNCHANGED <<notRunVars, inputVars, disk, summaries, ctxDone, runPc, reporterVars, chanVars, closerPc,
                   wjob, wres, collectVars, histVars>>

\* the worker-pool loop ends, the enqueue loop begins
RunSpawnDone ==
    /\ runPc = "spawn"
    /\ ~SpawnCond(loopI, workers)
    /\ loopI' = 0
    /\ runPc' = "enqueue"
    /\ UNCHANGED <<notRunVars, inputVars, disk, summaries, ctxDone, reporterVars, chanVars, wg, closerPc,
                   workerVars, collectVars, histVars>>

\* one iteration of the enqueue loop: jobs <- job{commit, i}
RunEnqueue ==
    /\ runPc = "enqueue"
    /\ loopI < Len(commits)
    /\ ~jobsClosed
    /\ Len(jobs) < jobsCap
    /\ jobs' = Append(jobs, MkJob(commits, loopI))
    /\ loopI' = loopI + 1
    /\ UNCHANGED <<notRunVars, chansMade, inputVars, disk, summaries, ctxDone, runPc, reporterVars, jobsCap, jobsClosed,
                   results, resultsCap, resultsClosed, wg, closerPc,
                   workerVars, collectVars, histVars>>

\* close(jobs); go func() { wg.Wait(); close(results) }(); allResults := make(...)
RunCloseJobs ==
    /\ runPc = "enqueue"
    /\ loopI >= Len(commits)
    /\ jobsClosed' = TRUE
    /\ closerPc' = "wait"
    /\ allResults' = <<>>
    /\ extractionErrs' = <<>>
    /\ runPc' = "collect"
    /\ UNCHANGED <<notRunVars, chansMade, inputVars, disk, summaries, ctxDone, loopI, reporterVars, jobs, jobsCap,
                   results, resultsCap, resultsClosed, wg, workerVars,
                   retResults, retErr, histVars>>

\* the closer goroutine: wg.Wait(); close(results)
CloserClose ==
    /\ closerPc = "wait"
    /\ WaitDone(wg)
    /\ resultsClosed' = TRUE
    /\ closerPc' = "done"
    /\ UNCHANGED <<notRunVars, chansMade, inputVars, disk, summaries, ctxDone, runPc, loopI, reporterVars, jobs,
                   jobsCap, jobsClosed, results, resultsCap, wg, workerVars,
                   collectVars, histVars>>

\* one iteration of: for result := range results
RunCollect ==
    /\ runPc = "collect"
    /\ ~RangeEnds(results, resultsClosed)
    /\ results # <<>>
    /\ LET result == Head(results) IN
         /\ allResults' = CollectAppend(allResults, result)
         /\ extractionErrs' = IF result.Error # "nil"
                               THEN Append(extractionErrs, result.Error)
                               ELSE extractionErrs
    /\ results' = Tail(results)
    /\ UNCHANGED <<notRunVars, chansMade, inputVars, disk, summaries, ctxDone, runPc, loopI, reporterVars, jobs,
                   jobsCap, jobsClosed, resultsCap, resultsClosed, wg,
                   closerPc, workerVars, retResults, retErr, histVars>>

\* the range loop ends: reporter.Finish(); return allResults, err
RunReturn ==
    /\ runPc = "collect"
    /\ RangeEnds(results, resultsClosed)
    /\ finishCalls' = finishCalls + 1
    /\ summaries' = summaries \o FinishOutput(RunQuiet, Len(commits))
    /\ retResults' = allResults
    /\ retErr' = AggregateError(extractionErrs, Len(commits))
    /\ runPc' = "returned"
    /\ UNCHANGED <<notRunVars, inputVars, disk, ctxDone, loopI, reporterMade, current, chanVars,
                   wg, closerPc, workerVars, allResults, extractionErrs,
                   histVars>>

(* ---- Extractor.worker ---- *)

\* select: case <-ctx.Done(): return   (deferred wg.Done())
WorkerCancelExit(w) ==
    /\ wpc[w] = "select"
    /\ ctxDone
    /\ wpc' = [wpc EXCEPT ![w] = "exited"]
    /\ wg' = WgDone(wg)
    /\ UNCHANGED <<notRunVars, inputVars, disk, summaries, ctxDone, runPc, loopI, reporterVars, chanVars,
                   closerPc, wjob, wres, collectVars, histVars>>

\* select: case j, ok := <-jobs with ok = true
WorkerTakeJob(w) ==
    /\ wpc[w] = "select"
    /\ jobs # <<>>
    /\ wjob' = [wjob EXCEPT ![w] = Head(jobs)]
    /\ jobs' = Dequeue(jobs)
    /\ wpc' = [wpc EXCEPT ![w] = "extract"]
    /\ taken' = Append(taken, Head(jobs).index)
    /\ UNCHANGED <<notRunVars, chansMade, inputVars, disk, summaries, ctxDone, runPc, loopI, reporterVars, jobsCap,
                   jobsClosed, results, resultsCap, resultsClosed, wg,
                   closerPc, wres, collectVars, published, atCancel>>

\* select: case j, ok := <-jobs with ok = false: return   (deferred wg.Done())
WorkerQueueClosedExit(w) ==
    /\ wpc[w] = "select"
    /\ jobs = <<>>
    /\ jobsClosed
    /\ wpc' = [wpc EXCEPT ![w] = "exited"]
    /\ wg' = WgDone(wg)
    /\ UNCHANGED <<notRunVars, inputVars, disk, summaries, ctxDone, runPc, loopI, reporterVars, chanVars,
                   closerPc, wjob, wres, collectVars, histVars>>

\* the positions of a worker between the receipt of a Job and the send of
\* its outcome: inside extractOne, or at `results <- result`
HoldingPcs == {"extract", "unpack", "meta", "send"}

\* what os.MkdirAll can do for an item: it succeeds, except that the
\* failure of an item whose extraction fails can be the failure to create
\* the output directory
MkdirOutcomes(f) == IF f = "extract_fail" THEN BOOLEAN ELSE {TRUE}

\* extractOne, in e.repo.ExtractCommit: os.MkdirAll(destPath, 0755); when it
\* fails ExtractCommit returns at once, no directory is made, no process is
\* started and extractOne returns the Result with that error
WorkerMkdir(w) ==
    /\ wpc[w] = "extract"
    /\ \E ok \in MkdirOutcomes(fate[wjob[w].commit.Hash]) :
          IF ok
          THEN /\ disk' = [disk EXCEPT ![OutputPathOf(wjob[w].commit)] = "directory"]
               /\ wpc' = [wpc EXCEPT ![w] = "unpack"]
               /\ UNCHANGED wres
          ELSE /\ wres' = [wres EXCEPT ![w] =
                              [Commit |-> wjob[w].commit, Index |-> wjob[w].index,
                               OutputPath |-> OutputPathOf(wjob[w].commit),
                               Error |-> ExtractCommit(fate, wjob[w].commit.Hash)]]
               /\ disk' = DiskAfter(disk, wres'[w])
               /\ wpc' = [wpc EXCEPT ![w] = "send"]
    /\ UNCHANGED <<notRunVars, inputVars, summaries, ctxDone, runPc, loopI,
                   reporterVars, chanVars, wg, closerPc, wjob,
                   collectVars, histVars>>

\* extractOne, in e.repo.ExtractCommit: the archiver and the unpacker run and
\* are waited for; err := the error of ExtractCommit; `if err == nil`
WorkerUnpack(w) ==
    /\ wpc[w] = "unpack"
    /\ LET err == ExtractCommit(fate, wjob[w].commit.Hash)
           res == [Commit |-> wjob[w].commit, Index |-> wjob[w].index,
                   OutputPath |-> OutputPathOf(wjob[w].commit), Error |-> err]
       IN  /\ wres' = [wres EXCEPT ![w] = res]
           /\ IF WritesMetadata(err)
              THEN /\ disk' = [disk EXCEPT ![res.OutputPath] = "tree"]
                   /\ wpc' = [wpc EXCEPT ![w] = "meta"]
              ELSE /\ disk' = DiskAfter(disk, res)
                   /\ wpc' = [wpc EXCEPT ![w] = "send"]
    /\ UNCHANGED <<notRunVars, inputVars, summaries, ctxDone, runPc, loopI,
                   reporterVars, chanVars, wg, closerPc, wjob, collectVars,
                   histVars>>

\* extractOne after a successful extraction: GetCommitFullMessage,
\* GetCommitStats, commit.WriteMetadataFile(outputPath); return Result{...}
WorkerMeta(w) ==
    /\ wpc[w] = "meta"
    /\ wres' = [wres EXCEPT ![w].Error = WriteMetadataFile(fate, wjob[w].commit.Hash)]
    /\ disk' = DiskAfter(disk, wres'[w])
    /\ wpc' = [wpc EXCEPT ![w] = "send"]
    /\ UNCHANGED <<notRunVars, inputVars, summaries, ctxDone, runPc, loopI,
                   reporterVars, chanVars, wg, closerPc, wjob, collectVars,
                   histVars>>

\* results <- result: waits for a free slot (a send on a closed channel
\* panics)
WorkerSend(w) ==
    /\ wpc[w] = "send"
    /\ resultsClosed \/ Len(results) < resultsCap
    /\ IF resultsClosed
       THEN /\ wpc' = [wpc EXCEPT ![w] = "panic"]
            /\ UNCHANGED <<results, published>>
       ELSE /\ results' = PublishTo(results, wres[w])
            /\ published' = published \o SubSeq(results', Len(results) + 1, Len(results'))
            /\ wpc' = [wpc EXCEPT ![w] = "report"]
    /\ UNCHANGED <<notRunVars, chansMade, inputVars, disk, summaries, ctxDone,
                   runPc, loopI, reporterVars, jobs, jobsCap, jobsClosed,
                   resultsCap, resultsClosed, wg, closerPc, wjob, wres,
                   collectVars, taken, atCancel>>

\* reporter.Increment(...): r.current++ under r.mu, then back to the select;
\* the locals j and result of the iteration are gone
WorkerReport(w) ==
    /\ wpc[w] = "report"
    /\ current' = current + 1
    /\ wpc' = [wpc EXCEPT ![w] = "select"]
    /\ wjob' = [wjob EXCEPT ![w] = NoJob]
    /\ wres' = [wres EXCEPT ![w] = NoResult]
    /\ UNCHANGED <<notRunVars, inputVars, disk, summaries, ctxDone, runPc, loopI, reporterMade, finishCalls,
                   chanVars, wg, closerPc, collectVars, histVars>>

(* ---- the environment ---- *)

\* cancel() of the context passed to Run (signal handler in cmd.Execute)
Cancel ==
    /\ ~ctxDone
    /\ runPc \notin {"idle", "returned"}
    /\ ctxDone' = TRUE
    /\ UNCHANGED <<notRunVars, inputVars, disk, summaries, runPc, loopI, reporterVars, chanVars, wg,
                   closerPc, workerVars, collectVars, histVars>>

\* the same cancel(), with the Jobs in flight at that moment recorded
CancelRecord ==
    /\ ~ctxDone
    /\ runPc # "returned"
    /\ ctxDone' = TRUE
    /\ atCancel' = {wjob[w].index : w \in {v \in Slots : wpc[v] \in HoldingPcs}}
    /\ UNCHANGED <<notRunVars, inputVars, disk, summaries, runPc, loopI, reporterVars, chanVars, wg,
                   closerPc, workerVars, collectVars, taken, published>>

Next ==
    \/ RunEmpty
    \/ RunSetup
    \/ RunSpawn
    \/ RunSpawnDone
    \/ RunEnqueue
    \/ RunCloseJobs
    \/ CloserClose
    \/ RunCollect
    \/ RunReturn
    \/ \E w \in Slots : WorkerCancelExit(w)
    \/ \E w \in Slots : WorkerTakeJob(w)
    \/ \E w \in Slots : WorkerQueueClosedExit(w)
    \/ \E w \in Slots : WorkerMkdir(w)
    \/ \E w \in Slots : WorkerUnpack(w)
    \/ \E w \in Slots : WorkerMeta(w)
    \/ \E w \in Slots : WorkerSend(w)
    \/ \E w \in Slots : WorkerReport(w)
    \/ Cancel

Spec == Init /\ [][Next]_vars

\* the run with the moment of the cancellation recorded
NextRecord ==
    \/ RunEmpty
    \/ RunSetup
    \/ RunSpawn
    \/ RunSpawnDone
    \/ RunEnqueue
    \/ RunCloseJobs
    \/ CloserClose
    \/ RunCollect
    \/ RunReturn
    \/ \E w \in Slots : WorkerCancelExit(w)
    \/ \E w \in Slots : WorkerTakeJob(w)
    \/ \E w \in Slots : WorkerQueueClosedExit(w)
    \/ \E w \in Slots : WorkerMkdir(w)
    \/ \E w \in Slots : WorkerUnpack(w)
    \/ \E w \in Slots : WorkerMeta(w)
    \/ \E w \in Slots : WorkerSend(w)
    \/ \E w \in Slots : WorkerReport(w)
    \/ CancelRecord

\* which item fails, not how, matters to the cancellation: one kind of failure
CancelInit == Init /\ \A h \in DOMAIN fate : fate[h] # "meta_fail"

CancelSpec == CancelInit /\ [][NextRecord]_vars

(***************************************************************************)
(* Repository.ExtractCommit and runArchiveToTar (internal/git/commits.go):  *)
(* one call, with the two child processes as separate processes.            *)
(* Process states: none (never started), running, killed (SIGKILL sent),    *)
(* exited (terminated, not yet waited for), reaped (Wait has returned).     *)
(***************************************************************************)

\* variant: the error of MkdirAll is ignored
MkdirErr_Ignored(ok) == PipeNilError

\* if err := os.MkdirAll(destPath, 0755); err != nil { return fmt.Errorf(...) }
MkdirErr(ok) ==
    IF ok THEN PipeNilError
    ELSE [class |-> "failed to create output directory", text |-> "mkdir"]

\* fmt.Errorf("failed to create pipe: %w", err)
PipeErr == [class |-> "failed to create pipe", text |-> "pipe"]

\* fmt.Errorf("failed to start git archive: %w", err)
StartArchiverErr == [class |-> "failed to start git archive", text |-> "start"]

\* variant: the unpacker's start failure is reported as the archiver's
StartUnpackerErr_AsArchiver == StartArchiverErr

\* fmt.Errorf("failed to start tar: %w", err)
StartUnpackerErr == [class |-> "failed to start tar", text |-> "start"]

\* archiveCmd.Process.Kill()
Kill(p) == IF p = "running" THEN "killed" ELSE p

\* variant: the unpacker's failure is looked at first
PipeResult_TarFirst(a, t) ==
    IF t # 0 THEN [class |-> "tar extraction failed", text |-> TarStderr]
    ELSE IF a # 0 THEN [class |-> "git archive failed", text |-> ArchiveStderr]
    ELSE PipeNilError

\* the two checks after the Waits: archiveErr first, then tarErr
PipeResult(a, t) ==
    IF a # 0 THEN [class |-> "git archive failed", text |-> ArchiveStderr]
    ELSE IF t # 0 THEN [class |-> "tar extraction failed", text |-> TarStderr]
    ELSE PipeNilError

\* the state in which no Run is being looked at
RunIdle ==
    /\ commits = <<>>
    /\ fate = <<>>
    /\ cfgWorkers = 1
    /\ workers = 1
    /\ ctxDone = FALSE
    /\ runPc = "idle"
    /\ loopI = 0
    /\ reporterMade = FALSE
    /\ current = 0
    /\ finishCalls = 0
    /\ chansMade = FALSE
    /\ jobs = <<>>
    /\ jobsCap = 0
    /\ jobsClosed = FALSE
    /\ results = <<>>
    /\ resultsCap = 0
    /\ resultsClosed = FALSE
    /\ wg = 0
    /\ closerPc = "unstarted"
    /\ wpc = [s \in Slots |-> "unstarted"]
    /\ wjob = [s \in Slots |-> NoJob]
    /\ wres = [s \in Slots |-> NoResult]
    /\ allResults = <<>>
    /\ extractionErrs = <<>>
    /\ retResults = <<>>
    /\ retErr = UnsetError
    /\ taken = <<>>
    /\ published = <<>>
    /\ atCancel = {}
    /\ disk = <<>>
    /\ summaries = <<>>

\* no other component than the pipeline is being looked at
NotPipeIdle == RunIdle /\ OneIdle /\ PathIdle /\ RepIdle /\ AppIdle

PipeInit ==
    /\ NotPipeIdle
    /\ excludeBinaries = FALSE
    /\ listFilesOk = TRUE
    /\ listBinaryOk = TRUE
    /\ snapshotFiles = <<>>
    /\ binaryDetected = {}
    /\ archiveArgs = FullArgs
    /\ pipePc = "mkdir"
    /\ mkdirOk \in BOOLEAN
    /\ pipeOk \in BOOLEAN
    /\ startAOk \in BOOLEAN
    /\ startBOk \in BOOLEAN
    /\ archExit \in ExitCodes
    /\ tarExit \in ExitCodes
    /\ stall \in BOOLEAN
    /\ dirCreated = FALSE
    /\ parentReadEnd = FALSE
    /\ archiver = "none"
    /\ unpacker = "none"
    /\ pipeRet = PipeUnset

\* ExtractCommit: os.MkdirAll, return on error
PipeMkdir ==
    /\ pipePc = "mkdir"
    /\ dirCreated' = mkdirOk
    /\ IF MkdirErr(mkdirOk) # PipeNilError
       THEN pipeRet' = MkdirErr(mkdirOk) /\ pipePc' = "returned"
       ELSE pipeRet' = pipeRet /\ pipePc' = "pipe"
    /\ UNCHANGED <<notPipeVars, exclVars, pipeInputs, parentReadEnd, archiver, unpacker>>

\* runArchiveToTar: exec.Command x 2, archiveCmd.StdoutPipe(), tarCmd.Stdin = pipe
PipeMake ==
    /\ pipePc = "pipe"
    /\ IF pipeOk
       THEN parentReadEnd' = TRUE /\ pipeRet' = pipeRet /\ pipePc' = "startA"
       ELSE /\ parentReadEnd' = FALSE
            /\ pipeRet' = PipeErr
            /\ pipePc' = "returned"
    /\ UNCHANGED <<notPipeVars, exclVars, pipeInputs, dirCreated, archiver, unpacker>>

\* archiveCmd.Start(); a failed Start closes the pipe ends it holds
PipeStartArchiver ==
    /\ pipePc = "startA"
    /\ IF startAOk
       THEN /\ archiver' = "running"
            /\ UNCHANGED <<parentReadEnd, pipeRet>>
            /\ pipePc' = "startB"
       ELSE /\ archiver' = archiver
            /\ parentReadEnd' = FALSE
            /\ pipeRet' = StartArchiverErr
            /\ pipePc' = "returned"
    /\ UNCHANGED <<notPipeVars, exclVars, pipeInputs, dirCreated, unpacker>>

\* tarCmd.Start(); on error archiveCmd.Process.Kill() and return
PipeStartUnpacker ==
    /\ pipePc = "startB"
    /\ IF startBOk
       THEN /\ unpacker' = "running"
            /\ UNCHANGED <<archiver, pipeRet>>
            /\ pipePc' = "waitA"
       ELSE /\ unpacker' = unpacker
            /\ archiver' = Kill(archiver)
            /\ pipeRet' = StartUnpackerErr
            /\ pipePc' = "returned"
    /\ UNCHANGED <<notPipeVars, exclVars, pipeInputs, dirCreated, parentReadEnd>>

\* git archive terminates: it has written its whole output, which it cannot
\* do while tar has stopped reading and the read end is still held open
ArchiverExit ==
    /\ archiver = "running"
    /\ ~(stall /\ parentReadEnd)
    /\ archiver' = "exited"
    /\ UNCHANGED <<notPipeVars, exclVars, pipePc, pipeInputs, dirCreated, parentReadEnd,
                   unpacker, pipeRet>>

\* the killed git archive terminates
ArchiverDies ==
    /\ archiver = "killed"
    /\ archiver' = "exited"
    /\ UNCHANGED <<notPipeVars, exclVars, pipePc, pipeInputs, dirCreated, parentReadEnd,
                   unpacker, pipeRet>>

\* tar terminates: when it has consumed the end-of-archive marker (git
\* archive may still be running then), or earlier when it fails or stops
\* reading
UnpackerExit ==
    /\ unpacker = "running"
    /\ unpacker' = "exited"
    /\ UNCHANGED <<notPipeVars, exclVars, pipePc, pipeInputs, dirCreated, parentReadEnd,
                   archiver, pipeRet>>

\* archiveErr := archiveCmd.Wait(): returns when git archive has terminated,
\* and closes the read end held by the calling process
PipeWaitArchiver ==
    /\ pipePc = "waitA"
    /\ archiver = "exited"
    /\ archiver' = "reaped"
    /\ parentReadEnd' = FALSE
    /\ pipePc' = "waitB"
    /\ UNCHANGED <<notPipeVars, exclVars, pipeInputs, dirCreated, unpacker, pipeRet>>

\* tarErr := tarCmd.Wait(), then the two error checks and the return
PipeWaitUnpacker ==
    /\ pipePc = "waitB"
    /\ unpacker = "exited"
    /\ unpacker' = "reaped"
    /\ pipeRet' = PipeResult(archExit, tarExit)
    /\ pipePc' = "returned"
    /\ UNCHANGED <<notPipeVars, exclVars, pipeInputs, dirCreated, parentReadEnd, archiver>>

PipeNext ==
    \/ PipeMkdir
    \/ PipeMake
    \/ PipeStartArchiver
    \/ PipeStartUnpacker
    \/ ArchiverExit
    \/ ArchiverDies
    \/ UnpackerExit
    \/ PipeWaitArchiver
    \/ PipeWaitUnpacker

PipeSpec == PipeInit /\ [][PipeNext]_vars

(***************************************************************************)
(* Repository.ExtractCommitExcludingBinaries (internal/git/commits.go):     *)
(* one call; the pipeline it runs is the one above.                         *)
(***************************************************************************)

\* file names: two files a commit may contain, and one that only a
\* diff-tree line can name (a file the commit deleted)
TreeOrder == <<"a.txt", "b.bin">>
DiffNames == {"a.txt", "b.bin", "gone.bin"}

\* the listings git ls-tree can produce: sub-lists of TreeOrder
Listing(S) == SelectSeq(TreeOrder, LAMBDA f : f \in S)
Snapshots == {Listing(S) : S \in SUBSET {"a.txt", "b.bin"}}

\* variant: nothing is filtered out
TextFiles_All(allFiles, binaryFiles) == allFiles

\* for _, file := range allFiles { if !binaryFiles[file] { append } }
TextFiles(allFiles, binaryFiles) ==
    SelectSeq(allFiles, LAMBDA f : f \notin binaryFiles)

\* archiveArgs with explicit pathspecs: "archive", "--format=tar", hash, "--", files...
PathArgs(files) == [mode |-> "paths", paths |-> files]

\* the error of os.MkdirAll as ExtractCommitExcludingBinaries returns it
\* when every file is binary: not wrapped
RawMkdirErr == [class |-> "mkdir", text |-> "mkdir"]

ExclInit ==
    /\ NotPipeIdle
    /\ pipePc = "enter"
    /\ excludeBinaries \in BOOLEAN
    /\ listFilesOk \in BOOLEAN
    /\ listBinaryOk \in BOOLEAN
    /\ snapshotFiles \in Snapshots
    /\ binaryDetected \in SUBSET DiffNames
    /\ archiveArgs = FullArgs
    /\ mkdirOk \in BOOLEAN
    /\ pipeOk = TRUE
    /\ startAOk = TRUE
    /\ startBOk \in BOOLEAN
    /\ archExit \in ExitCodes
    /\ tarExit \in ExitCodes
    /\ stall = FALSE
    /\ dirCreated = FALSE
    /\ parentReadEnd = FALSE
    /\ archiver = "none"
    /\ unpacker = "none"
    /\ pipeRet = PipeUnset

\* if !excludeBinaries { return r.ExtractCommit(hash, destPath) }
ExclEnter ==
    /\ pipePc = "enter"
    /\ pipePc' = IF ~excludeBinaries THEN "mkdir" ELSE "listFiles"
    /\ UNCHANGED <<notPipeVars, exclVars, pipeInputs, dirCreated, parentReadEnd,
                   archiver, unpacker, pipeRet>>

\* allFiles, err := r.listFiles(hash); on error the full extraction
ExclListFiles ==
    /\ pipePc = "listFiles"
    /\ pipePc' = IF ~listFilesOk THEN "mkdir" ELSE "listBinary"
    /\ UNCHANGED <<notPipeVars, exclVars, pipeInputs, dirCreated, parentReadEnd,
                   archiver, unpacker, pipeRet>>

\* binaryFiles, err := r.listBinaryFiles(hash); on error, or when the set
\* is empty, the full extraction
ExclListBinary ==
    /\ pipePc = "listBinary"
    /\ pipePc' = IF ~listBinaryOk \/ Cardinality(binaryDetected) = 0
                 THEN "mkdir" ELSE "filter"
    /\ UNCHANGED <<notPipeVars, exclVars, pipeInputs, dirCreated, parentReadEnd,
                   archiver, unpacker, pipeRet>>

\* the filter loop, then: no text file -> return os.MkdirAll(destPath);
\* otherwise MkdirAll (error wrapped) and runArchiveToTar with the pathspecs
ExclFilter ==
    /\ pipePc = "filter"
    /\ LET textFiles == TextFiles(snapshotFiles, binaryDetected) IN
       IF Len(textFiles) = 0
       THEN /\ dirCreated' = mkdirOk
            /\ pipeRet' = IF mkdirOk THEN PipeNilError ELSE RawMkdirErr
            /\ pipePc' = "returned"
            /\ UNCHANGED archiveArgs
       ELSE /\ dirCreated' = mkdirOk
            /\ IF MkdirErr(mkdirOk) # PipeNilError
               THEN /\ pipeRet' = MkdirErr(mkdirOk)
                    /\ pipePc' = "returned"
                    /\ UNCHANGED archiveArgs
               ELSE /\ pipeRet' = pipeRet
                    /\ pipePc' = "pipe"
                    /\ archiveArgs' = PathArgs(textFiles)
    /\ UNCHANGED <<notPipeVars, excludeBinaries, listFilesOk, listBinaryOk,
                   snapshotFiles, binaryDetected, pipeInputs, parentReadEnd,
                   archiver, unpacker>>

ExclNext ==
    \/ ExclEnter
    \/ ExclListFiles
    \/ ExclListBinary
    \/ ExclFilter
    \/ PipeNext

ExclSpec == ExclInit /\ [][ExclNext]_vars

(***************************************************************************)
(* Extractor.extractOne step by step, followed by what the collector of    *)
(* Run does with the Result (a run of one item).                            *)
(***************************************************************************)

\* the repository behaviour for the one commit, as a fate map
OneFateMap == [h \in {oneCommit.Hash} |-> oneFate]

OneInit ==
    /\ RunIdle /\ PipeIdle /\ PathIdle /\ RepIdle /\ AppIdle
    /\ onePc = "extract"
    /\ oneFate \in Fates
    /\ oneMsgOk \in BOOLEAN
    /\ oneStatsOk \in BOOLEAN
    /\ \E c \in {CommitList(MaxItems)[i] : i \in 1 .. MaxItems} :
          oneCommit = WithDetails(c, "", 0)
    /\ oneErr = "nil"
    /\ oneDisk = "absent"
    /\ oneMetaTried = FALSE
    /\ oneResult = NoResult
    /\ oneRetErr = UnsetError

\* err := e.repo.ExtractCommit(commit.Hash, outputPath)
OneExtract ==
    /\ onePc = "extract"
    /\ oneErr' = ExtractCommit(OneFateMap, oneCommit.Hash)
    /\ oneDisk' = IF oneErr' = "nil" THEN "tree" ELSE "partial"
    /\ onePc' = IF WritesMetadata(oneErr') THEN "message" ELSE "return"
    /\ UNCHANGED <<notOneVars, oneInputs, oneCommit, oneMetaTried, oneResult,
                   oneRetErr>>

\* if fullMsg, msgErr := GetCommitFullMessage(...); msgErr == nil { commit.FullMessage = fullMsg }
OneGetMessage ==
    /\ onePc = "message"
    /\ oneCommit' = IF oneMsgOk
                    THEN WithDetails(oneCommit, "full message", oneCommit.FilesChanged)
                    ELSE oneCommit
    /\ onePc' = "stats"
    /\ UNCHANGED <<notOneVars, oneInputs, oneErr, oneDisk, oneMetaTried,
                   oneResult, oneRetErr>>

\* if stats, statsErr := GetCommitStats(...); statsErr == nil { commit.FilesChanged = ... }
OneGetStats ==
    /\ onePc = "stats"
    /\ oneCommit' = IF oneStatsOk
                    THEN WithDetails(oneCommit, oneCommit.FullMessage, 1)
                    ELSE oneCommit
    /\ onePc' = "meta"
    /\ UNCHANGED <<notOneVars, oneInputs, oneErr, oneDisk, oneMetaTried,
                   oneResult, oneRetErr>>

\* if metaErr := commit.WriteMetadataFile(outputPath); metaErr != nil { err = ... }
OneWriteMeta ==
    /\ onePc = "meta"
    /\ oneMetaTried' = TRUE
    /\ LET metaErr == WriteMetadataFile(OneFateMap, oneCommit.Hash) IN
         /\ oneErr' = IF metaErr # "nil" THEN metaErr ELSE oneErr
         /\ oneDisk' = IF metaErr = "nil" THEN "tree and metadata" ELSE oneDisk
    /\ onePc' = "return"
    /\ UNCHANGED <<notOneVars, oneInputs, oneCommit, oneResult, oneRetErr>>

\* return Result{Commit, Index, OutputPath, Error}
OneReturn ==
    /\ onePc = "return"
    /\ oneResult' = [Commit |-> oneCommit, Index |-> 0,
                     OutputPath |-> OutputPathOf(oneCommit), Error |-> oneErr]
    /\ onePc' = "collect"
    /\ UNCHANGED <<notOneVars, oneInputs, oneCommit, oneErr, oneDisk,
                   oneMetaTried, oneRetErr>>

\* Run's collector on that Result: the error list and the aggregate error
OneCollect ==
    /\ onePc = "collect"
    /\ LET errs == IF oneResult.Error # "nil" THEN <<oneResult.Error>> ELSE <<>>
       IN oneRetErr' = AggregateError(errs, 1)
    /\ onePc' = "done"
    /\ UNCHANGED <<notOneVars, oneInputs, oneCommit, oneErr, oneDisk,
                   oneMetaTried, oneResult>>

OneNext ==
    \/ OneExtract
    \/ OneGetMessage
    \/ OneGetStats
    \/ OneWriteMeta
    \/ OneReturn
    \/ OneCollect

OneSpec == OneInit /\ [][OneNext]_vars

(***************************************************************************)
(* Two workers of one run, each holding one Job, computing the output path *)
(* as extractOne does and then writing into it.                            *)
(***************************************************************************)

\* author dates and abbreviated hashes the two commits are drawn from
PathDates == {105, 1005}
PathShorts == {"a1", "a1b", "b2"}

PathInit ==
    /\ RunIdle /\ PipeIdle /\ OneIdle /\ RepIdle /\ AppIdle
    /\ pathPc = [w \in PathWorkers |-> "start"]
    /\ pathJob \in [PathWorkers -> {[Hash |-> 1, ShortHash |-> sh, AuthorDate |-> d] :
                                       sh \in PathShorts, d \in PathDates}]
    \* the caller passes commits with pairwise distinct abbreviated hashes
    /\ pathJob[1].ShortHash # pathJob[2].ShortHash
    /\ pathOut = [w \in PathWorkers |-> ""]

\* extractOne: timestamp, folderName, outputPath
PathCompute(w) ==
    /\ pathPc[w] = "start"
    /\ pathOut' = [pathOut EXCEPT ![w] = OutputPathOf(pathJob[w])]
    /\ pathPc' = [pathPc EXCEPT ![w] = "write"]
    /\ UNCHANGED <<notPathVars, pathJob>>

\* ExtractCommit and WriteMetadataFile have written into the path
PathWritten(w) ==
    /\ pathPc[w] = "write"
    /\ pathPc' = [pathPc EXCEPT ![w] = "done"]
    /\ UNCHANGED <<notPathVars, pathJob, pathOut>>

PathNext == \E w \in PathWorkers : PathCompute(w) \/ PathWritten(w)

PathSpec == PathInit /\ [][PathNext]_vars

(***************************************************************************)
(* progress.Reporter (first version in the progress package) used as Run   *)
(* uses it: one goroutine calls Start, the workers call Increment once per *)
(* extraction, and Finish is called when all of them have returned.  The   *)
(* mutex r.mu is taken and released in separate steps; the writes to the   *)
(* sink happen outside of it, as in the code.                              *)
(***************************************************************************)

\* r.current++: the value written for the value read
IncCurrent(c) == c + 1

\* variant: Lock does not wait for the holder of the mutex
CanLock_Always(mu) == TRUE

\* r.mu.Lock() returns only when no goroutine holds the mutex
CanLock(mu) == mu = 0

\* variant: the mutex stays locked
Unlock_Kept(w) == w

\* r.mu.Unlock()
Unlock(w) == 0

\* time.Since(r.lastPrint) > 100*time.Millisecond || current == r.total
ShouldPrint(since, cur, total) == since > RedrawInterval \/ cur = total

RepInit ==
    /\ RunIdle /\ PipeIdle /\ OneIdle /\ PathIdle /\ AppIdle
    /\ repTotal \in 1 .. MaxItems
    /\ repQuiet \in BOOLEAN
    /\ repVerbose \in BOOLEAN
    /\ repMain = "start"
    /\ RepFresh

\* Reporter.Start, before any worker runs: nothing when quiet, else print()
RepStart ==
    /\ repMain = "start"
    /\ repMain' = "running"
    /\ IF repQuiet
       THEN UNCHANGED <<repLastPrint, repLastBar>>
       ELSE repLastPrint' = repNow /\ repLastBar' = repCurrent
    /\ UNCHANGED <<notRepVars, repConfig, repLoad, repMu, repCurrent, repNow, repPc,
                   repCount, repShould, repBar, repDrew, repStarted,
                   repReturned, repObserved, repRedraw, repSummary>>

\* the clock advances while the reporter is in use
RepTick ==
    /\ repMain # "idle"
    /\ repNow < MaxTime
    /\ repNow' = repNow + 1
    /\ UNCHANGED <<notRepVars, repConfig, repLoad, repMu, repCurrent, repLastPrint,
                   repMain, repPc, repCount, repShould, repBar, repDrew,
                   repStarted, repReturned, repObserved, repRedraw,
                   repLastBar, repSummary>>

\* worker: a Job is received and its extraction (the pipeline) begins
RepTake(w) ==
    /\ repMain = "running"
    /\ repPc[w] = "idle"
    /\ repStarted < repTotal
    /\ repStarted' = repStarted + 1
    /\ repPc' = [repPc EXCEPT ![w] = "extract"]
    /\ UNCHANGED <<notRepVars, repConfig, repLoad, repMu, repCurrent, repLastPrint,
                   repNow, repMain, repCount, repShould, repBar, repDrew,
                   repReturned, repObserved, repRedraw, repLastBar,
                   repSummary>>

\* worker: extractOne has returned and the result is sent; Increment is next
RepExtracted(w) ==
    /\ repPc[w] = "extract"
    /\ repPc' = [repPc EXCEPT ![w] = "inc_lock"]
    /\ UNCHANGED <<notRepVars, repConfig, repLoad, repMu, repCurrent, repLastPrint,
                   repNow, repMain, repCount, repShould, repBar, repDrew,
                   repStarted, repReturned, repObserved, repRedraw,
                   repLastBar, repSummary>>

\* r.mu.Lock() of Increment (twice) and of print
RepLock(w) ==
    /\ repPc[w] \in {"inc_lock", "chk_lock", "pr_lock"}
    /\ CanLock(repMu)
    /\ repMu' = w
    /\ repPc' = [repPc EXCEPT ![w] = CASE repPc[w] = "inc_lock" -> "inc_cs"
                                        [] repPc[w] = "chk_lock" -> "chk_cs"
                                        [] OTHER -> "pr_cs"]
    /\ UNCHANGED <<notRepVars, repConfig, repLoad, repCurrent, repLastPrint, repNow,
                   repMain, repCount, repShould, repBar, repDrew, repStarted,
                   repReturned, repObserved, repRedraw, repLastBar,
                   repSummary>>

\* Increment: r.current++, the read of the counter
RepIncLoad(w) ==
    /\ repPc[w] = "inc_cs"
    /\ repLoad' = [repLoad EXCEPT ![w] = repCurrent]
    /\ repPc' = [repPc EXCEPT ![w] = "inc_store"]
    /\ UNCHANGED <<notRepVars, repConfig, repMu, repCurrent, repLastPrint,
                   repNow, repMain, repCount, repShould, repBar, repDrew,
                   repStarted, repReturned, repObserved, repRedraw,
                   repLastBar, repSummary>>

\* Increment: r.current++, the write of the value read plus one
RepIncStore(w) ==
    /\ repPc[w] = "inc_store"
    /\ repCurrent' = IncCurrent(repLoad[w])
    /\ repLoad' = [repLoad EXCEPT ![w] = 0]
    /\ repPc' = [repPc EXCEPT ![w] = "inc_copy"]
    /\ UNCHANGED <<notRepVars, repConfig, repMu, repLastPrint, repNow,
                   repMain, repCount, repShould, repBar, repDrew, repStarted,
                   repReturned, repObserved, repRedraw, repLastBar,
                   repSummary>>

\* Increment: current := r.current
RepIncCopy(w) ==
    /\ repPc[w] = "inc_copy"
    /\ repCount' = [repCount EXCEPT ![w] = repCurrent]
    /\ repObserved' = Append(repObserved, repCurrent)
    /\ repDrew' = [repDrew EXCEPT ![w] = FALSE]
    /\ repPc' = [repPc EXCEPT ![w] = "inc_unlock"]
    /\ UNCHANGED <<notRepVars, repConfig, repLoad, repMu, repCurrent,
                   repLastPrint, repNow, repMain, repShould, repBar,
                   repStarted, repReturned, repRedraw, repLastBar,
                   repSummary>>

\* Increment: r.mu.Unlock(); then the quiet return, or the choice between
\* the verbose line and the throttled redraw
RepIncUnlock(w) ==
    /\ repPc[w] = "inc_unlock"
    /\ repMu' = Unlock(w)
    /\ IF repQuiet
       THEN /\ repPc' = [repPc EXCEPT ![w] = "idle"]
            /\ repReturned' = repReturned + 1
       ELSE /\ repPc' = [repPc EXCEPT ![w] = IF repVerbose THEN "line" ELSE "chk_lock"]
            /\ UNCHANGED repReturned
    /\ UNCHANGED <<notRepVars, repConfig, repLoad, repCurrent, repLastPrint,
                   repNow, repMain, repCount, repShould, repBar, repDrew,
                   repStarted, repObserved, repRedraw, repLastBar,
                   repSummary>>

\* Increment, verbose: the message line is written, print() comes next
RepLine(w) ==
    /\ repPc[w] = "line"
    /\ repPc' = [repPc EXCEPT ![w] = "pr_lock"]
    /\ UNCHANGED <<notRepVars, repConfig, repLoad, repMu, repCurrent, repLastPrint,
                   repNow, repMain, repCount, repShould, repBar, repDrew,
                   repStarted, repReturned, repObserved, repRedraw,
                   repLastBar, repSummary>>

\* Increment, not verbose: shouldPrint is computed under the mutex
RepChkCs(w) ==
    /\ repPc[w] = "chk_cs"
    /\ repShould' = [repShould EXCEPT ![w] =
                        ShouldPrint(repNow - repLastPrint, repCount[w], repTotal)]
    /\ repMu' = Unlock(w)
    /\ IF repShould'[w]
       THEN /\ repPc' = [repPc EXCEPT ![w] = "pr_lock"]
            /\ UNCHANGED repReturned
       ELSE /\ repPc' = [repPc EXCEPT ![w] = "idle"]
            /\ repReturned' = repReturned + 1
    /\ UNCHANGED <<notRepVars, repConfig, repLoad, repCurrent, repLastPrint, repNow,
                   repMain, repCount, repBar, repDrew, repStarted,
                   repObserved, repRedraw, repLastBar, repSummary>>

\* print: current := r.current; r.lastPrint = time.Now(); r.mu.Unlock()
RepPrintCs(w) ==
    /\ repPc[w] = "pr_cs"
    /\ repBar' = [repBar EXCEPT ![w] = repCurrent]
    /\ repRedraw' = IF repVerbose THEN repRedraw
                    ELSE [count |-> repCount[w], since |-> repNow - repLastPrint]
    /\ repLastPrint' = repNow
    /\ repMu' = Unlock(w)
    /\ repPc' = [repPc EXCEPT ![w] = "pr_write"]
    /\ UNCHANGED <<notRepVars, repConfig, repLoad, repCurrent, repNow, repMain,
                   repCount, repShould, repDrew, repStarted, repReturned,
                   repObserved, repLastBar, repSummary>>

\* print: the bar is formatted and written to the sink; Increment returns
RepWrite(w) ==
    /\ repPc[w] = "pr_write"
    /\ repLastBar' = repBar[w]
    /\ repDrew' = [repDrew EXCEPT ![w] = TRUE]
    /\ repReturned' = repReturned + 1
    /\ repPc' = [repPc EXCEPT ![w] = "idle"]
    /\ UNCHANGED <<notRepVars, repConfig, repLoad, repMu, repCurrent, repLastPrint,
                   repNow, repMain, repCount, repShould, repBar, repStarted,
                   repObserved, repRedraw, repSummary>>

\* Reporter.Finish, called when every Increment of the run has returned
RepFinish ==
    /\ repMain = "running"
    /\ repReturned = repTotal
    /\ repMu = 0
    /\ repSummary' = repSummary \o FinishOutput(repQuiet, repTotal)
    /\ repMain' = "finished"
    /\ UNCHANGED <<notRepVars, repConfig, repLoad, repMu, repCurrent, repLastPrint,
                   repNow, repPc, repCount, repShould, repBar, repDrew,
                   repStarted, repReturned, repObserved, repRedraw,
                   repLastBar>>

RepWorkerStep(w) ==
    \/ RepTake(w)
    \/ RepExtracted(w)
    \/ RepLock(w)
    \/ RepIncLoad(w)
    \/ RepIncStore(w)
    \/ RepIncCopy(w)
    \/ RepIncUnlock(w)
    \/ RepLine(w)
    \/ RepChkCs(w)
    \/ RepPrintCs(w)
    \/ RepWrite(w)

RepNext ==
    \/ RepStart
    \/ RepTick
    \/ RepFinish
    \/ \E w \in RepWorkers : RepWorkerStep(w)

RepSpec == RepInit /\ [][RepNext]_vars

(* ---- app.runAllBranches and cmd.Execute ---- *)
\* the errors an item of a branch can end with
ItemErrs == {"nil", "extract failed"}

\* variant: a cancelled context is not noticed
ListCommits_IgnoresCtx(done, gitOk, n) ==
    IF ~gitOk
    THEN [commits |-> <<>>, err |-> "git log failed"]
    ELSE [commits |-> CommitList(n), err |-> "nil"]

\* Repository.ListCommits: exec.CommandContext(ctx, "git", "log", ...) does
\* not start with a cancelled context and cmd.Output returns its error
ListCommits(done, gitOk, n) ==
    IF done \/ ~gitOk
    THEN [commits |-> <<>>, err |-> "git log failed"]
    ELSE [commits |-> CommitList(n), err |-> "nil"]

\* variant: the check at the head of the loop is missing
BoundaryCancelled_Ignored(done) == FALSE

\* if ctx.Err() != nil
BoundaryCancelled(done) == done

\* variant: the error of the latest failing branch is kept
KeepFirst_Last(old, err) == IF err # NilError THEN err ELSE old

\* if err != nil && extractionErr == nil { extractionErr = err }
KeepFirst(old, err) == IF err # NilError /\ old = NilError THEN err ELSE old

\* Execute: if err := app.Run(ctx, cfg); err != nil { return 1 }; return 0
ExitStatus(err) == IF err # NilError THEN 1 ELSE 0

\* the orders in which the outcomes of the first k Jobs of the queue can
\* reach the results channel with w workers: a Job is dequeued in queue
\* order by a free worker, while at most w - 1 earlier Jobs are unfinished
CompletionOrders(k, w) ==
    {ord \in [1 .. k -> 1 .. k] :
        /\ \A a, b \in 1 .. k : ord[a] = ord[b] => a = b
        /\ \A a \in 1 .. k :
              Cardinality({b \in 1 .. (a - 1) : ord[b] < ord[a]}) >= ord[a] - w}

\* what Extractor.Run returns for the commits cs when item i ended with the
\* error errOf[i] and the outcomes arrived in the order ord: the results as
\* collected, and the aggregate of their errors in the same order
RunOutcome(cs, errOf, ord) ==
    LET res == [j \in 1 .. Len(ord) |-> [Index |-> ord[j] - 1, Error |-> errOf[ord[j]]]]
        errs == SelectSeq([j \in 1 .. Len(ord) |-> errOf[ord[j]]], LAMBDA x : x # "nil")
    IN  [results |-> res, err |-> AggregateError(errs, Len(cs))]

AppInit ==
    /\ RunIdle /\ PipeIdle /\ OneIdle /\ PathIdle /\ RepIdle
    /\ appCfgWorkers \in WorkerConfigs
    /\ appCtxDone = FALSE
    /\ appPc = "start"
    /\ appVia = "none"
    /\ appN = 0
    /\ appI = 0
    /\ appCommits = <<>>
    /\ appRunning = {}
    /\ appAllResults = <<>>
    /\ appExtractionErr = NilError
    /\ appRet = UnsetError
    /\ appExit = -1
    /\ appLog = [b \in Branches |-> NoLog]

\* the signal handler of Execute calls cancel()
AppCancel ==
    /\ appPc \notin {"idle", "returned"}
    /\ ~appCtxDone
    /\ appCtxDone' = TRUE
    /\ UNCHANGED <<notAppVars, appCfgWorkers, appPc, appVia, appN, appI, appCommits,
                   appRunning, appAllResults, appExtractionErr, appRet,
                   appExit, appLog>>

\* a return statement of runAllBranches, and the return of Execute after it
AppReturn(err, via) ==
    /\ appRet' = err
    /\ appExit' = ExitStatus(err)
    /\ appVia' = via
    /\ appPc' = "returned"

\* repo.ListBranches and the two early returns after it
AppListBranches ==
    /\ appPc = "start"
    /\ \E ok \in BOOLEAN, n \in 0 .. MaxBranches :
          IF appCtxDone \/ ~ok
          THEN /\ AppReturn(ListBranchesErr, "list_branches")
               /\ UNCHANGED <<appN, appI>>
          ELSE IF n = 0
          THEN /\ AppReturn(NoBranchesErr, "no_branches")
               /\ UNCHANGED <<appN, appI>>
          ELSE /\ appN' = n
               /\ appI' = 1
               /\ appPc' = "check"
               /\ UNCHANGED <<appRet, appExit, appVia>>
    /\ UNCHANGED <<notAppVars, appCfgWorkers, appCtxDone, appCommits, appRunning,
                   appAllResults, appExtractionErr, appLog>>

\* the head of a loop iteration: if ctx.Err() != nil { return ctx.Err() }
AppCheck ==
    /\ appPc = "check"
    /\ appI <= appN
    /\ appLog' = [appLog EXCEPT ![appI].ctxAtCheck = appCtxDone]
    /\ IF BoundaryCancelled(appCtxDone)
       THEN AppReturn(CancelErr, "cancel")
       ELSE /\ appPc' = "list"
            /\ UNCHANGED <<appRet, appExit, appVia>>
    /\ UNCHANGED <<notAppVars, appCfgWorkers, appCtxDone, appN, appI, appCommits,
                   appRunning, appAllResults, appExtractionErr>>

\* repo.ListCommits for the branch; `continue` on an error or on no commits,
\* else extractor.New and the call of ext.Run
AppList ==
    /\ appPc = "list"
    /\ \E gitOk \in BOOLEAN, n \in 0 .. MaxItems :
          LET r == ListCommits(appCtxDone, gitOk, n)
              skip == r.err # "nil" \/ Len(r.commits) = 0
          IN  /\ appCommits' = r.commits
              /\ appLog' = [appLog EXCEPT ![appI] =
                               [@ EXCEPT !.ctxAtList = appCtxDone,
                                         !.listErr = r.err,
                                         !.commits = r.commits,
                                         !.state = IF r.err # "nil" THEN "listfail"
                                                   ELSE IF Len(r.commits) = 0 THEN "empty"
                                                   ELSE "running"]]
              /\ IF skip
                 THEN /\ appI' = appI + 1
                      /\ appPc' = "check"
                      /\ UNCHANGED appRunning
                 ELSE /\ appPc' = "run"
                      /\ appRunning' = appRunning \cup {appI}
                      /\ UNCHANGED appI
    /\ UNCHANGED <<notAppVars, appCfgWorkers, appCtxDone, appVia, appN, appAllResults,
                   appExtractionErr, appRet, appExit>>

\* extractor.New(repo, Config{Workers: cfg.Workers, ...}) and ext.Run, which
\* returns every item when the context was never cancelled, else the items
\* dequeued before the workers saw the cancellation, in the order in which
\* the workers finished them; then
\* allResults = append(allResults, results...) and the first error is kept
AppRunReturns ==
    /\ appPc = "run"
    /\ \E errOf \in [1 .. Len(appCommits) -> ItemErrs], k \in 0 .. Len(appCommits) :
          /\ k = Len(appCommits) \/ appCtxDone
          /\ \E ord \in CompletionOrders(k, NewWorkers(appCfgWorkers)) :
             LET o == RunOutcome(appCommits, errOf, ord)
             IN  /\ appAllResults' = appAllResults \o o.results
                 /\ appExtractionErr' = KeepFirst(appExtractionErr, o.err)
                 /\ appLog' = [appLog EXCEPT ![appI] =
                                  [@ EXCEPT !.state = "done",
                                            !.results = o.results,
                                            !.runErr = o.err]]
    /\ appRunning' = appRunning \ {appI}
    /\ appI' = appI + 1
    /\ appPc' = "check"
    /\ UNCHANGED <<notAppVars, appCfgWorkers, appCtxDone, appVia, appN, appCommits,
                   appRet, appExit>>

\* the loop is over: printSummary(allResults, ...); return extractionErr
AppLoopEnd ==
    /\ appPc = "check"
    /\ appI > appN
    /\ AppReturn(appExtractionErr, "end")
    /\ UNCHANGED <<notAppVars, appCfgWorkers, appCtxDone, appN, appI, appCommits,
                   appRunning, appAllResults, appExtractionErr, appLog>>

AppNext ==
    \/ AppCancel
    \/ AppListBranches
    \/ AppCheck
    \/ AppList
    \/ AppRunReturns
    \/ AppLoopEnd

AppSpec == AppInit /\ [][AppNext]_vars

(* ---- scheduling ---- *)
\* the steps of the goroutine that runs Run
RunStep ==
    \/ RunEmpty \/ RunSetup \/ RunSpawn \/ RunSpawnDone \/ RunEnqueue
    \/ RunCloseJobs \/ RunCollect \/ RunReturn

\* the steps of worker goroutine w; every extraction terminates
WorkerStep(w) ==
    \/ WorkerCancelExit(w) \/ WorkerTakeJob(w) \/ WorkerQueueClosedExit(w)
    \/ WorkerMkdir(w) \/ WorkerUnpack(w) \/ WorkerMeta(w) \/ WorkerSend(w)
    \/ WorkerReport(w)

\* a step of any goroutine of the run
Progress == RunStep \/ CloserClose \/ \E w \in Slots : WorkerStep(w)

\* the Go scheduler keeps running goroutines while one is runnable; nothing
\* is assumed about the cancellation signal or about which goroutine runs
\* termination does not look at the outcome of an extraction: the runs in
\* which no metadata write fails are explored
LiveInit == Init /\ \A h \in DOMAIN fate : fate[h] # "meta_fail"

FairSpec == LiveInit /\ [][Next]_vars /\ WF_vars(Progress)

(***************************************************************************)
(* Properties                                                              *)
(***************************************************************************)
N == Len(commits)
Returned == runPc = "returned"
Range(q) == {q[i] : i \in 1 .. Len(q)}
IndexCount(q, idx) == Cardinality({i \in 1 .. Len(q) : q[i].Index = idx})
Count(q, x) == Cardinality({i \in 1 .. Len(q) : q[i] = x})
Failed(q) == {i \in 1 .. Len(q) : q[i].Error # "nil"}
Started == {w \in Slots : wpc[w] # "unstarted"}
InFlight == {w \in Slots : wpc[w] \in HoldingPcs}

\* C1: a run on N >= 1 items in which cancellation was never requested
\* returns exactly N outcomes whose Index values are a permutation of 0..N-1.
C1_Permutation ==
    (Returned /\ ~ctxDone /\ N > 0) =>
        /\ Len(retResults) = N
        /\ \A idx \in 0 .. (N - 1) : IndexCount(retResults, idx) = 1
        /\ \A i \in 1 .. Len(retResults) : retResults[i].Index \in 0 .. (N - 1)

\* two workers, two items, outcomes returned out of submission order
C1_Witness ==
    /\ Returned /\ ~ctxDone /\ N >= 2 /\ workers >= 2
    /\ Len(retResults) = N
    /\ retResults[1].Index # 0

\* C2: every run that returns, cancelled or not, returns as many outcomes as
\* items were submitted.
C2_NoItemDropped == Returned => Len(retResults) = N

\* C3: Run returns a nil error iff no returned outcome carries a failure; if
\* every item extracts successfully the error is nil and no outcome has an
\* Error.
C3_Verdict ==
    Returned =>
        /\ (retErr = NilError) <=> (Failed(retResults) = {})
        /\ (\A h \in DOMAIN fate : fate[h] = "ok") =>
               (retErr = NilError /\ Failed(retResults) = {})

\* a partially failed run: one failed and one successful outcome
C3_Witness ==
    /\ Returned
    /\ retErr # NilError
    /\ Failed(retResults) # {}
    /\ \E i \in 1 .. Len(retResults) : retResults[i].Error = "nil"

\* C4: if K >= 1 outcomes carry an Error, Run returns an aggregate error
\* reporting K failures out of N, and the list holds all N entries.
C4_KofN ==
    (Returned /\ Cardinality(Failed(retResults)) >= 1) =>
        /\ retErr.kind = "failed"
        /\ retErr.failed = Cardinality(Failed(retResults))
        /\ retErr.total = N
        /\ Len(retResults) = N

\* C5: for an empty input Run creates no reporter, no channel and no worker
\* and returns zero outcomes and a nil error.
C5_EmptyInput ==
    (N = 0) =>
        /\ ~reporterMade /\ ~chansMade
        /\ Started = {} /\ wg = 0 /\ closerPc = "unstarted"
        /\ runPc \in {"start", "returned"}
        /\ Returned => (retResults = <<>> /\ retErr = NilError)

C5_Witness == N = 0 /\ Returned /\ retErr = NilError

\* C6: no submitted index is dequeued twice, by two workers or by the same
\* worker, and two workers never hold the same Job.
C6_ConsumedOnce ==
    /\ \A i, j \in 1 .. Len(taken) : i # j => taken[i] # taken[j]
    /\ \A v, w \in InFlight : v # w => wjob[v].index # wjob[w].index

\* two workers have each dequeued a Job and hold it
C6_Witness ==
    /\ Len(taken) >= 2
    /\ \E v, w \in InFlight : v # w

\* C7: every dequeued Job has exactly one published outcome as soon as its
\* worker has left the extraction, whether it succeeded or failed, and no
\* outcome before; a worker leaves its loop only through the select (on
\* cancellation or on the closed, empty queue), never because an item failed.
C7_OneOutcomePerJob ==
    /\ \A k \in 1 .. Len(taken) :
          LET idx == taken[k]
          IN IF \E w \in Slots : wpc[w] \in HoldingPcs /\ wjob[w].index = idx
             THEN IndexCount(published, idx) = 0
             ELSE /\ IndexCount(published, idx) = 1
                  /\ \E r \in Range(published) :
                        r = extractOne(fate, commits[idx + 1], idx)
    /\ \A r \in Range(published) : \E k \in 1 .. Len(taken) : taken[k] = r.Index
    /\ \A w \in Started :
          /\ wpc[w] \in {"select", "report", "exited"} \cup HoldingPcs
          /\ wpc[w] = "exited" => (ctxDone \/ (jobsClosed /\ jobs = <<>>))

\* a worker has published a failed outcome and then dequeued the next Job
C7_Witness ==
    /\ workers = 1
    /\ \E w \in InFlight : wjob[w].index = 1
    /\ \E r \in Range(published) : r.Index = 0 /\ r.Error # "nil"

\* C8: at most e.config.Workers extractions are in flight, and exactly that
\* many workers have been started once the pool loop is over.
C8_BoundedConcurrency ==
    /\ Cardinality(InFlight) <= workers
    /\ Cardinality(Started) <= workers
    /\ (N > 0 /\ runPc \in {"enqueue", "collect", "returned"}) =>
           Started = 1 .. workers

\* as many extractions in flight as there are workers, with a pool of two
C8_Witness == workers >= 2 /\ Cardinality(InFlight) = workers

\* C9: results is closed only when every worker has exited, Run returns only
\* after the close, and no worker sends on the closed channel.
C9_CloseAfterWorkers ==
    /\ resultsClosed =>
          /\ Started = 1 .. workers
          /\ \A w \in Started : wpc[w] = "exited"
          /\ wg = 0
    /\ (Returned /\ N > 0) =>
          /\ resultsClosed
          /\ \A w \in Started : wpc[w] = "exited"
    /\ \A w \in Slots : wpc[w] # "panic"

\* Run has returned outcomes produced by two workers: the second item was
\* published before the first
C9_Witness ==
    /\ Returned /\ resultsClosed /\ workers >= 2
    /\ Len(retResults) >= 2
    /\ retResults[1].Index > retResults[2].Index

\* C10: while collecting, the collector's list together with the channel
\* buffer holds every published outcome exactly once; the list Run returns
\* holds every outcome ever published exactly once, and none is left behind.
C10_CollectsAll ==
    /\ runPc = "collect" =>
          \A r \in Range(published) \cup Range(allResults) \cup Range(results) :
              Count(allResults, r) + Count(results, r) = Count(published, r)
    /\ (Returned /\ N > 0) =>
          /\ results = <<>>
          /\ Len(retResults) = Len(published)
          /\ \A r \in Range(published) \cup Range(retResults) :
                Count(retResults, r) = 1 /\ Count(published, r) = 1

\* the collector has drained the buffer while a slow worker is still
\* extracting: its outcome will be published late
C10_Witness ==
    /\ runPc = "collect"
    /\ Len(allResults) >= 1
    /\ results = <<>>
    /\ InFlight # {}

\* C11: under fair scheduling of the goroutines, with every extraction
\* terminating, Run eventually returns, for every input length, worker count
\* and timing of the cancellation.
C11_RunReturns == <>Returned

\* Run has returned in a run that was cancelled with more workers than items
C11_Witness == Returned /\ ctxDone /\ N >= 1 /\ workers > N

\* C12: a Job that was in flight when the cancellation was raised is never
\* abandoned: its worker stays in the extraction until it has published the
\* outcome, and the list Run returns holds that outcome.
C12_InFlightCompletes ==
    /\ \A idx \in atCancel :
          \/ \E w \in Slots : wpc[w] \in HoldingPcs /\ wjob[w].index = idx
          \/ IndexCount(published, idx) = 1
    /\ Returned => \A idx \in atCancel :
          /\ IndexCount(retResults, idx) = 1
          /\ extractOne(fate, commits[idx + 1], idx) \in Range(retResults)

\* Run has returned the outcomes of two Jobs that were both in flight when
\* the cancellation was raised
C12_Witness ==
    /\ Returned /\ ctxDone
    /\ Cardinality(atCancel) >= 2
    /\ \A idx \in atCancel : IndexCount(retResults, idx) = 1

\* C13: once the cancellation has been raised no worker dequeues a Job.
C13_NoPickupAfterCancel == [][ctxDone => taken' = taken]_vars

\* the outcome extractOne must give for the item submitted at position idx
ExpectedOutcome(idx) ==
    [Commit |-> commits[idx + 1],
     Index |-> idx,
     OutputPath |-> "out/20_" \o ToString(commits[idx + 1].Hash) \o "_" \o ToString(commits[idx + 1].Hash),
     Error |-> CASE fate[commits[idx + 1].Hash] = "ok" -> "nil"
                 [] fate[commits[idx + 1].Hash] = "extract_fail" -> "extract_failed"
                 [] OTHER -> "metadata_failed"]

\* C14: without cancellation the set of returned outcomes and the verdict
\* are fixed by the input alone, whatever the worker count: one worker and N
\* workers return the same outcomes up to order.
C14_SameForAnyWorkerCount ==
    (Returned /\ ~ctxDone /\ N > 0) =>
        /\ Range(retResults) = {ExpectedOutcome(idx) : idx \in 0 .. (N - 1)}
        /\ Len(retResults) = N
        /\ LET k == Cardinality({idx \in 0 .. (N - 1) :
                                   fate[commits[idx + 1].Hash] # "ok"})
           IN /\ retErr.kind = (IF k = 0 THEN "nil" ELSE "failed")
              /\ retErr.failed = k
              /\ retErr.total = (IF k = 0 THEN 0 ELSE N)

\* N >= 2 workers have returned N outcomes, one of them failed, in an order
\* a single worker cannot produce
C14_Witness ==
    /\ Returned /\ ~ctxDone /\ N >= 2 /\ workers = N
    /\ Len(retResults) = N
    /\ retResults[1].Index # 0
    /\ Failed(retResults) # {}

\* C15: every outcome carries the submission position of its commit, and the
\* returned list is in the order of publication.
C15_IndexAndOrder ==
    /\ \A r \in Range(published) : r.Index \in 0 .. (N - 1) /\ r.Commit = commits[r.Index + 1]
    /\ runPc = "collect" => allResults \o results = published
    /\ (Returned /\ N > 0) =>
          /\ retResults = published
          /\ \A i \in 1 .. Len(retResults) :
                retResults[i].Commit = commits[retResults[i].Index + 1]

\* a returned list that is not in submission order
C15_Witness ==
    /\ Returned /\ Len(retResults) >= 2
    /\ retResults[1].Index > retResults[2].Index
    /\ retResults = published

\* C16: the job queue is made with capacity N, the enqueue loop never finds
\* it full or closed, so all N Jobs are enqueued without waiting for a worker.
C16_EnqueueNeverBlocks ==
    /\ chansMade => jobsCap = N
    /\ (runPc = "enqueue" /\ loopI < N) => (Len(jobs) < jobsCap /\ ~jobsClosed)
    /\ Len(jobs) <= jobsCap

\* all N >= 2 Jobs enqueued and the queue closed before any was consumed
C16_Witness ==
    /\ N >= 2 /\ runPc = "collect" /\ jobsClosed
    /\ Len(jobs) = N /\ taken = <<>>

\* C17: a worker count <= 0 becomes NumCPU (positive), a positive count is
\* kept, and a run on a non-empty input has started at least one worker once
\* the pool loop is over.
C17_WorkerCount ==
    /\ workers >= 1
    /\ cfgWorkers <= 0 => workers = NumCPU
    /\ cfgWorkers > 0 => workers = cfgWorkers
    /\ (N > 0 /\ runPc \in {"enqueue", "collect", "returned"}) => Started # {}

\* a run configured with a negative worker count has extracted its items
C17_Witness ==
    /\ cfgWorkers < 0 /\ Returned /\ N >= 1 /\ ~ctxDone
    /\ Len(retResults) = N

PipeReturned == pipePc = "returned"
BothStarted == mkdirOk /\ pipeOk /\ startAOk /\ startBOk

\* C18: a subprocess exists only when the destination directory has been
\* created; when the creation fails ExtractCommit returns the creation
\* error and neither process was ever started.
C18_MkdirFirst ==
    /\ (archiver # "none" \/ unpacker # "none" \/ parentReadEnd) => dirCreated
    /\ (PipeReturned /\ ~mkdirOk) =>
          /\ pipeRet.class = "failed to create output directory"
          /\ archiver = "none" /\ unpacker = "none"
          /\ ~dirCreated

\* ExtractCommit has returned the directory-creation error
C18_Witness ==
    /\ PipeReturned /\ ~mkdirOk /\ pipeOk /\ startAOk /\ startBOk
    /\ pipeRet.class = "failed to create output directory"

\* C19: the archiver is started before the unpacker, the unpacker is never
\* started when the archiver's start fails, and when the pipeline returns
\* every process it started has terminated and has been waited for.
C19_NoProcessLeak ==
    /\ unpacker # "none" => archiver # "none"
    /\ (PipeReturned /\ ~startAOk) => unpacker = "none"
    /\ PipeReturned => (archiver \in {"none", "reaped"} /\ unpacker \in {"none", "reaped"})

\* C20: when both processes were started the pipeline returns only after
\* both have been waited for; the result is nil iff both exit statuses are
\* zero; a failing archiver is reported with the archiver's stderr, also
\* when tar fails too; a failing tar alone with tar's stderr.
C20_WaitBothThenReport ==
    (PipeReturned /\ BothStarted) =>
        /\ archiver = "reaped" /\ unpacker = "reaped"
        /\ (pipeRet = PipeNilError) <=> (archExit = 0 /\ tarExit = 0)
        /\ archExit # 0 =>
              pipeRet = [class |-> "git archive failed", text |-> ArchiveStderr]
        /\ (archExit = 0 /\ tarExit # 0) =>
              pipeRet = [class |-> "tar extraction failed", text |-> TarStderr]

\* both processes failed and the archiver's failure was returned
C20_Witness ==
    /\ PipeReturned /\ BothStarted
    /\ archExit # 0 /\ tarExit # 0
    /\ pipeRet.class = "git archive failed"

\* the first step of the pipeline that fails for the drawn inputs
FirstFailure ==
    IF ~mkdirOk THEN "mkdir"
    ELSE IF ~pipeOk THEN "pipe"
    ELSE IF ~startAOk THEN "archiver start"
    ELSE IF ~startBOk THEN "unpacker start"
    ELSE IF archExit # 0 THEN "archiver exit"
    ELSE IF tarExit # 0 THEN "unpacker exit"
    ELSE "none"

FailureClasses == {"mkdir", "pipe", "archiver start", "unpacker start",
                   "archiver exit", "unpacker exit"}

\* the error text that names each failure class
ClassText(c) ==
    CASE c = "mkdir" -> "failed to create output directory"
      [] c = "pipe" -> "failed to create pipe"
      [] c = "archiver start" -> "failed to start git archive"
      [] c = "unpacker start" -> "failed to start tar"
      [] c = "archiver exit" -> "git archive failed"
      [] c = "unpacker exit" -> "tar extraction failed"
      [] OTHER -> "nil"

\* extractOne's test on the error of ExtractCommit: err == nil
IsItemFailure(err) == err # PipeNilError

\* C21: each of the six failure classes yields a returned error that names
\* its class, the six names are pairwise different, and every one of them
\* is a non-nil error, which is all the dispatcher looks at.
C21_FailureClasses ==
    /\ \A c, d \in FailureClasses : ClassText(c) = ClassText(d) => c = d
    /\ PipeReturned =>
          /\ pipeRet.class = ClassText(FirstFailure)
          /\ IsItemFailure(pipeRet) <=> FirstFailure \in FailureClasses

\* the unpacker could not be started and that error was returned
C21_Witness ==
    /\ PipeReturned
    /\ FirstFailure = "unpacker start"
    /\ pipeRet.class = "failed to start tar"
    /\ IsItemFailure(pipeRet)

\* the binary set the call has detected: empty when a listing failed
Detected == IF listFilesOk /\ listBinaryOk THEN binaryDetected ELSE {}
FastPath == ~excludeBinaries \/ Detected = {}
\* the files of the snapshot that are not in the binary set
TextSet == {snapshotFiles[i] : i \in DOMAIN snapshotFiles} \ binaryDetected
Spawned == archiver # "none" \/ unpacker # "none"

\* the parts of C22 that do not depend on the outcome of MkdirAll
ExclDispatch ==
    /\ (FastPath /\ Spawned) => archiveArgs = FullArgs
    /\ (~FastPath /\ Spawned) =>
          /\ archiveArgs.mode = "paths"
          /\ {archiveArgs.paths[i] : i \in DOMAIN archiveArgs.paths} = TextSet
          /\ Len(archiveArgs.paths) = Cardinality(TextSet)
    /\ (~FastPath /\ TextSet = {}) => ~Spawned

\* C22 as stated: ... and when the set-difference is empty the destination
\* directory is still created and the call never returns an error.
C22_AsStated ==
    /\ ExclDispatch
    /\ (~FastPath /\ TextSet = {} /\ PipeReturned) =>
          (dirCreated /\ pipeRet = PipeNilError)

\* C22 (amended): with exclusion disabled or no binary file detected the
\* full-snapshot pipeline is run; otherwise the archiver is given exactly
\* the snapshot's files that are not in the binary set; when that set is
\* empty nothing is spawned and the call returns what MkdirAll returns:
\* nil with the directory created, or the creation error.
C22_BinaryExclusion ==
    /\ ExclDispatch
    /\ (~FastPath /\ TextSet = {} /\ PipeReturned) =>
          /\ dirCreated = mkdirOk
          /\ (pipeRet = PipeNilError) <=> mkdirOk
          /\ ~mkdirOk => pipeRet = RawMkdirErr

\* a commit with a text file and a binary file was archived with the text
\* file as its only pathspec
C22_Witness ==
    /\ PipeReturned /\ ~FastPath
    /\ snapshotFiles = <<"a.txt", "b.bin">> /\ binaryDetected = {"b.bin"}
    /\ archiveArgs = PathArgs(<<"a.txt">>)
    /\ archiver = "reaped" /\ unpacker = "reaped"

OneDone == onePc = "done"

\* C23: WriteMetadataFile is called only after ExtractCommit succeeded; a
\* failed metadata write makes the same Result a failure that the aggregate
\* error counts; a failed GetCommitFullMessage or GetCommitStats leaves a
\* successful Result successful.
C23_MetadataAfterExtraction ==
    /\ oneMetaTried => oneFate # "extract_fail"
    /\ (OneDone /\ oneFate = "meta_fail") =>
          /\ oneResult.Error = "metadata_failed"
          /\ oneResult.Commit = oneCommit /\ oneResult.Index = 0
          /\ oneResult.OutputPath = OutputPathOf(oneCommit)
          /\ oneRetErr.kind = "failed" /\ oneRetErr.failed = 1
    /\ (OneDone /\ oneFate = "ok") =>
          /\ oneResult.Error = "nil"
          /\ oneRetErr = NilError
          /\ ~oneMsgOk => oneResult.Commit.FullMessage = ""
          /\ ~oneStatsOk => oneResult.Commit.FilesChanged = 0
          /\ oneDisk = "tree and metadata"
    /\ (OneDone /\ oneFate = "extract_fail") => oneDisk # "tree and metadata"

\* the message and the statistics could not be fetched, the metadata write
\* failed, and the Result is the failure counted by the aggregate error
C23_Witness ==
    /\ OneDone /\ oneFate = "meta_fail" /\ ~oneMsgOk /\ ~oneStatsOk
    /\ oneMetaTried
    /\ oneResult.Error = "metadata_failed" /\ oneRetErr.failed = 1

\* C25: two Jobs of one run whose commits have different abbreviated
\* hashes get different output paths, so the two workers never write into
\* the same directory at the same time.
C25_DistinctPaths ==
    /\ (pathOut[1] # "" /\ pathOut[2] # "") => pathOut[1] # pathOut[2]
    /\ (pathPc[1] = "write" /\ pathPc[2] = "write") => pathOut[1] # pathOut[2]

\* both workers are writing, for two commits made in the same second
C25_Witness ==
    /\ pathPc[1] = "write" /\ pathPc[2] = "write"
    /\ pathJob[1].AuthorDate = pathJob[2].AuthorDate
    /\ pathOut[1] = "out/01_05_a1" /\ pathOut[2] = "out/01_05_a1b"

\* C24: from the moment an item's successful outcome is published, and
\* whatever fails later, its directory is on disk with its tree and its
\* metadata document; this is still so for every successful outcome when
\* Run returns, with or without its aggregate error.
C24_NoRollback ==
    /\ \A i \in 1 .. Len(published) :
          published[i].Error = "nil" =>
              disk[published[i].OutputPath] = "tree and metadata"
    /\ Returned =>
          \A i \in 1 .. Len(retResults) :
              retResults[i].Error = "nil" =>
                  disk[retResults[i].OutputPath] = "tree and metadata"

\* Run returned its aggregate error for one failed item while the item
\* extracted before it is still on disk
C24_Witness ==
    /\ Returned /\ retErr.kind = "failed" /\ N = 2
    /\ Len(retResults) = 2
    /\ retResults[1].Error = "nil" /\ retResults[2].Error # "nil"
    /\ disk[retResults[1].OutputPath] = "tree and metadata"

\* Finish where it is called: at the end of Extractor.Run, whose reporter is
\* never quiet, and on a Reporter of every configuration (quiet or not,
\* verbose or not) whose callers made exactly total Increments
FinishInit == Init \/ RepInit
FinishNext == Next \/ RepNext
FinishSpec == FinishInit /\ [][FinishNext]_vars

\* Run calls Finish exactly once in a non-empty run, and only when no worker
\* is inside or before an Increment any more
FinishOnceInRun ==
    /\ finishCalls > 0 => \A s \in Slots : wpc[s] \in {"unstarted", "exited"}
    /\ finishCalls <= 1
    /\ Returned => finishCalls = (IF N > 0 THEN 1 ELSE 0)

\* C29 as stated: after N Increments against a total of N, Finish has written
\* one summary, which shows N, whatever the settings of the reporter; and
\* Run calls Finish once, after the last Increment of every worker.
C29_AsStated ==
    /\ repMain = "finished" => repSummary = <<repTotal>>
    /\ (Returned /\ N > 0 /\ current = N) => summaries = <<N>>
    /\ FinishOnceInRun

\* C29: Finish is called on a reporter with total N after N Increments have
\* returned; it then has written one summary, which shows N, verbose or not,
\* unless the reporter is quiet, in which case it has written nothing; no
\* summary is written before; and Run, whose reporter is not quiet, calls
\* Finish once in a non-empty run, after the last Increment of every worker,
\* and returns with the one summary written.
C29_FinishOnce ==
    /\ repMain = "finished" =>
          /\ repReturned = repTotal /\ repCurrent = repTotal
          /\ repSummary = (IF repQuiet THEN <<>> ELSE <<repTotal>>)
    /\ repMain # "finished" => repSummary = <<>>
    /\ (Returned /\ N > 0) => summaries = <<N>>
    /\ ~Returned => summaries = <<>>
    /\ FinishOnceInRun

\* a run of two items has returned after two Increments and one call of
\* Finish, which wrote one summary showing 2
C29_Witness ==
    /\ Returned /\ N = 2 /\ current = 2
    /\ finishCalls = 1 /\ summaries = <<2>>

\* the Increment calls that have copied the counter into their local
IncDone == Len(repObserved)
\* the Increment calls that have done their r.current++
IncStored == IncDone + Cardinality({w \in RepWorkers : repPc[w] = "inc_copy"})
\* the workers inside a call of Increment
RepInIncrement == {w \in RepWorkers : repPc[w] \notin {"idle", "extract"}}
RepBarMode == ~repQuiet /\ ~repVerbose
RepCsStates == {"inc_cs", "inc_store", "inc_copy", "inc_unlock", "chk_cs", "pr_cs"}

\* C26: r.current is the number of Increment calls that have done their
\* r.current++ (no update is lost), so that it is k when k calls have
\* returned and none is under way, in any interleaving of the workers; and
\* the counts the calls copied into their locals are pairwise different
\* values of 1 .. k.
C26_AtomicIncrement ==
    /\ repCurrent = IncStored
    /\ RepInIncrement = {} => repCurrent = repReturned
    /\ \A i, j \in 1 .. IncDone : repObserved[i] = repObserved[j] => i = j
    /\ \A i \in 1 .. IncDone : repObserved[i] \in 1 .. IncStored
    /\ repMain = "finished" => repCurrent = repTotal

\* two workers were inside Increment together, the first one waiting for
\* the mutex while the second one had read but not yet written the counter;
\* both have incremented since and hold the counts 2 and 1
C26_Witness ==
    /\ repTotal = 2 /\ repCurrent = 2
    /\ repCount[1] = 2 /\ repCount[2] = 1
    /\ repObserved = <<1, 2>>
    /\ repPc[1] = "inc_unlock" /\ repPc[2] \in {"chk_lock", "line"}

\* C27: not verbose, not quiet: an Increment redraws the bar only when more
\* than the redraw interval has passed since the previous redraw or its own
\* count is the total, and the Increment whose count is the total has
\* redrawn when it returns.
C27_ThrottledRedraw ==
    RepBarMode =>
        /\ repRedraw # NoRedraw =>
              (repRedraw.since > RedrawInterval \/ repRedraw.count = repTotal)
        /\ \A w \in RepWorkers :
              (repPc[w] = "idle" /\ repCount[w] = repTotal) => repDrew[w]

\* C28: not quiet: once all N Increments of a run with total N have
\* returned, the bar written last to the sink shows N.
C28_FinalRenderAccurate ==
    (~repQuiet /\ repReturned = repTotal) => repLastBar = repTotal

\* C30: the mutex is held only inside the three short critical sections of
\* Increment and print, never by a worker that is extracting, and its
\* holder can always take its next step, which is the step that releases
\* the mutex or one of the three in-memory steps of Increment before it.
C30_LockNotHeldAcrossExtraction ==
    \A w \in RepWorkers :
        /\ repPc[w] = "extract" => repMu # w
        /\ repMu = w =>
              /\ repPc[w] \in RepCsStates
              /\ ENABLED (\/ RepIncLoad(w) \/ RepIncStore(w) \/ RepIncCopy(w)
                         \/ /\ RepIncUnlock(w) \/ RepChkCs(w) \/ RepPrintCs(w)
                            /\ repMu' = 0)

\* one worker holds the mutex in print while the other one is extracting
C30_Witness ==
    /\ repMu = 1 /\ repPc[1] = "pr_cs"
    /\ repPc[2] = "extract"

\* the positions of a worker at a formatted write to the sink: the message
\* line of Increment and the bar of print
RepWriteStates == {"line", "pr_write"}

\* C31: a worker that is at a formatted write to the sink holds the mutex,
\* two workers are never at a write together, and the bar about to be
\* written is not older than the bar written before it.
C31_RenderUnderLock ==
    /\ \A w \in RepWorkers : repPc[w] \in RepWriteStates => repMu = w
    /\ \A v, w \in RepWorkers :
          (repPc[v] \in RepWriteStates /\ repPc[w] \in RepWriteStates) => v = w
    /\ \A w \in RepWorkers : repPc[w] = "pr_write" => repBar[w] >= repLastBar

\* the branches whose loop iteration has called ListCommits
AppListed == {b \in Branches : appLog[b].listErr # "unset"}

\* C32: a call of ListCommits made with an already-cancelled context
\* returns an error and no commits (the branch is skipped, never extracted).
C32_ListCancelled ==
    \A b \in AppListed :
        appLog[b].ctxAtList =>
            /\ appLog[b].listErr # "nil"
            /\ appLog[b].commits = <<>>
            /\ appLog[b].state = "listfail"

\* the context was cancelled between the check at the head of the loop and
\* the call of ListCommits for the second branch
C32_Witness ==
    /\ appLog[2].ctxAtList /\ ~appLog[2].ctxAtCheck
    /\ appLog[2].listErr # "nil"
    /\ appLog[1].state = "done"

\* the enqueue loop of Run has sent every Job
AllEnqueued ==
    \/ runPc = "enqueue" /\ loopI >= N
    \/ runPc \in {"collect", "returned"}

\* C33: a worker is started, and a Job is dequeued, only when every Job
\* has been enqueued.
C33_EnqueueBeforeWorkers ==
    /\ Started # {} => AllEnqueued
    /\ taken # <<>> => AllEnqueued

\* the branches of the repository, and what the loop did with them
AppBranches == 1 .. appN
AppAttempted(b) == appLog[b].state \in {"listfail", "empty", "done"}
HadFailedItem(b) ==
    \E i \in DOMAIN appLog[b].results : appLog[b].results[i].Error # "nil"
FailingBranches == {b \in AppBranches : HadFailedItem(b)}
FirstFailureErr ==
    IF FailingBranches = {} THEN NilError
    ELSE appLog[CHOOSE b \in FailingBranches :
                    \A c \in FailingBranches : b <= c].runErr
\* runAllBranches came to the end of its loop (no cancellation was seen at
\* the head of an iteration)
AppLoopCompleted == appPc = "returned" /\ appVia = "end"
\* runAllBranches returned from the head of an iteration of its loop
AppLoopCancelled == appPc = "returned" /\ appVia = "cancel"
\* at most one branch is being extracted at a time, and it is the branch of
\* the current iteration, all earlier branches being finished and all later
\* ones untouched
OneBranchAtATime ==
    /\ Cardinality(appRunning) <= 1
    /\ \A b \in appRunning :
          /\ b = appI
          /\ \A c \in AppBranches : c < b => AppAttempted(c)
          /\ \A c \in AppBranches : c > b => appLog[c].state = "pending"

\* C34 as stated: the runs of two branches never overlap; whenever
\* runAllBranches has returned from its loop over the branches, every
\* branch was attempted and the returned error is the aggregate error of the
\* first branch that had failed items, nil only if no branch had one.
C34_AsStated ==
    /\ OneBranchAtATime
    /\ (AppLoopCompleted \/ AppLoopCancelled) =>
          /\ \A b \in AppBranches : AppAttempted(b)
          /\ appRet = FirstFailureErr
          /\ appRet = NilError => FailingBranches = {}

\* C34: the runs of two branches never overlap.  When the loop has come to
\* its end, every branch was attempted (also after a branch with failed
\* items or a failed listing), and the returned error is the aggregate
\* error of the first branch that had failed items, nil exactly when no
\* branch had one.  When the loop was left at the head of an iteration
\* because the context was cancelled, exactly the branches before that
\* iteration were attempted and the error is ctx.Err(), whatever the
\* earlier branches returned.
C34_BranchesInSequence ==
    /\ OneBranchAtATime
    /\ AppLoopCompleted =>
          /\ \A b \in AppBranches : AppAttempted(b)
          /\ appRet = FirstFailureErr
          /\ appRet = NilError <=> FailingBranches = {}
          /\ appExit = (IF FailingBranches = {} THEN 0 ELSE 1)
    /\ AppLoopCancelled =>
          /\ \A b \in AppBranches : AppAttempted(b) <=> b < appI
          /\ appRet = CancelErr
          /\ appExit = 1
    /\ appPc = "returned" /\ appN > 0 => (AppLoopCompleted \/ AppLoopCancelled)

\* both branches were extracted and both had failed items, with different
\* aggregate errors; the error of the first one was returned
C34_Witness ==
    /\ AppLoopCompleted /\ appN = 2
    /\ FailingBranches = {1, 2}
    /\ appLog[1].runErr # appLog[2].runErr
    /\ appRet = appLog[1].runErr

\* the branches at whose loop head the cancellation was observed
SeenCancelled == {b \in Branches : appLog[b].ctxAtCheck}

\* C35: when the check at the head of a branch's iteration finds the context
\* cancelled, runAllBranches has returned ctx.Err() without listing or
\* extracting that branch or any later one, and Execute exits with 1.
C35_CancelAtBoundary ==
    \A b \in SeenCancelled :
        /\ appPc = "returned" /\ appVia = "cancel"
        /\ appRet = CancelErr
        /\ appExit = 1
        /\ \A c \in Branches : c >= b =>
              /\ appLog[c].state = "pending"
              /\ appLog[c].listErr = "unset"
              /\ appLog[c].results = <<>>

\* the first of two branches was extracted, with failed items, and the
\* cancellation was seen before the second one
C35_Witness ==
    /\ appN = 2 /\ SeenCancelled = {2}
    /\ appLog[1].state = "done" /\ appLog[1].runErr # NilError
    /\ appPc = "returned"

\* C36: a Run that returns fewer outcomes than it was given items returns a
\* non-nil error.
C36_IncompleteIsError ==
    (Returned /\ Len(retResults) < N) => retErr # NilError

\* the pipeline under fair scheduling: the operating system lets a process
\* that can run run, and the calling goroutine takes its next step
FairPipeSpec == PipeInit /\ [][PipeNext]_vars /\ WF_vars(PipeNext)

\* C37: once both processes have been started (the caller is at the wait on
\* the archiver) the pipeline eventually returns.
C37_PipelineReturns == (pipePc = "waitA") ~> PipeReturned

\* C38: the results channel never holds more outcomes than its capacity,
\* which is the item count; at most N outcomes are ever published; and a
\* worker that is about to publish finds a free slot, also while the
\* collector has not begun to drain.
C38_PublishNeverBlocks ==
    /\ chansMade => resultsCap = N
    /\ Len(results) <= resultsCap
    /\ Len(published) <= N
    /\ \A w \in Slots : wpc[w] \in HoldingPcs => Len(results) < resultsCap
    /\ \A w \in Slots : wpc[w] = "send" => ENABLED WorkerSend(w)

\* both outcomes of a run of two items are buffered while Run has not yet
\* closed the jobs channel, so the collector is not draining
C38_Witness ==
    /\ N = 2 /\ Len(results) = 2
    /\ runPc = "enqueue"

\* C39: the progress counter never exceeds the number of outcomes published,
\* which never exceeds the number of Jobs dequeued, which never exceeds N;
\* a worker that is about to increment has already published its outcome.
C39_ProgressBehindOutcomes ==
    /\ current <= Len(published)
    /\ Len(published) <= Len(taken)
    /\ Len(taken) <= N
    /\ \A w \in Slots : wpc[w] = "report" =>
          \E i \in 1 .. Len(published) : published[i] = wres[w]

\* of two items, both were dequeued, one outcome is published and not yet
\* counted, the other item is still being extracted
C39_Witness ==
    /\ N = 2 /\ Len(taken) = 2
    /\ Len(published) = 1 /\ current = 0
    /\ \E v, w \in Slots : wpc[v] = "report" /\ wpc[w] = "unpack"

\* barWidth := 30
BarWidth == 30

\* print: filled := barWidth * current / r.total, capped at barWidth; the
\* integer division panics when r.total is 0
Filled(cur, total) ==
    IF total = 0
    THEN [panic |-> TRUE, filled |-> 0]
    ELSE [panic |-> FALSE,
          filled |-> IF (BarWidth * cur) \div total > BarWidth
                     THEN BarWidth
                     ELSE (BarWidth * cur) \div total]

\* C40: whenever the reporter of a run exists its total, len(commits), is
\* at least 1, so the bar computation of print does not divide by zero and
\* yields between 0 and barWidth filled cells.
C40_TotalAtLeastOne ==
    reporterMade =>
        /\ N >= 1
        /\ ~Filled(current, N).panic
        /\ Filled(current, N).filled \in 0 .. BarWidth

\* the smallest run that builds a reporter: one commit, extracted and counted
C40_Witness ==
    /\ reporterMade /\ N = 1
    /\ current = 1 /\ Filled(current, N).filled = BarWidth

====
